---------------------------- MODULE Spec2Model ----------------------------
(***************************************************************************)
(* A model of the resume analysis pipeline: ResumeScorer (scorer.py),      *)
(* ResumeRanker (ranker.py), the batch loop of ResumeAnalyzerCLI           *)
(* (analyzer.py) and ExperienceParser (extractors/experience_parser.py).   *)
(*                                                                         *)
(* Representation.                                                         *)
(*  - A Python string is a sequence of words (the text split on white      *)
(*    space); a multi-line text is a sequence of lines.                    *)
(*  - A Python dict is a TLA+ record; "key in d" is "key \in DOMAIN d".    *)
(*  - A float is an exact rational <<numerator, denominator>> with a       *)
(*    positive denominator; round(x, 2) is an integer count of hundredths. *)
(*  - An exception leaving a function is recorded in an outcome variable.  *)
(***************************************************************************)
EXTENDS Integers, Sequences, FiniteSets, TLC

VARIABLES
    \* ResumeScorer.score_resume: arguments, locals and outcome
    resume_data, jd_text, use_embeddings, sub_scores, total_score, result,
    score_outcome,
    \* ResumeRanker.rank_resumes: argument list (mutated in place), returned
    \* list, the list the call before returned, outcome, and the number of
    \* calls made
    resumes_data, ranked, prev_ranked, rank_outcome, rank_calls,
    \* ResumeAnalyzerCLI.analyze_batch: position, files, loop index, results,
    \* the order documents were processed in, exit status, reports written
    pc, resume_files, file_idx, results, processed, exit_code, reports_saved,
    \* ResumeScorer._get_grade: argument (thousandths) and returned grade
    grade_score, grade_out,
    \* ExperienceParser._calculate_duration: arguments, clock and outcome
    start_date, end_date, now, duration_out,
    \* ExperienceParser.extract: the experience section and the entries
    section_text, experiences, extract_outcome,
    \* SkillsExtractor.extract: the text, the returned dict and the outcome
    skills_text, skills_result, skills_outcome,
    \* ResumeParser.parse: the path, the returned dict and the outcome
    file_path, parse_result, parse_outcome,
    \* ResumeExtractor.extract_all: the summary of the returned record
    summary,
    \* ResumeRanker._calculate_composite_score: the argument and the outcome
    candidate, composite_out,
    \* ResumeScorer._calculate_format_score: the argument and the outcome
    format_data, format_out,
    \* ContactExtractor._extract_name: the text (its lines) and the outcome
    contact_text, name_out,
    \* ResumeExtractor._determine_education_level: the argument and the outcome
    education_data, level_out,
    \* ResumeOptimizer.generate_feedback: the arguments, the returned dict and
    \* the outcome
    fb_resume_data, fb_jd_text, fb_ats_score, feedback, feedback_outcome

scorerVars == <<resume_data, jd_text, use_embeddings, sub_scores, total_score,
                result, score_outcome>>
rankerVars == <<resumes_data, ranked, prev_ranked, rank_outcome, rank_calls>>
batchVars == <<pc, resume_files, file_idx, results, processed, exit_code,
               reports_saved>>
gradeVars == <<grade_score, grade_out>>
durationVars == <<start_date, end_date, now, duration_out>>
extractVars == <<section_text, experiences, extract_outcome>>
skillsVars == <<skills_text, skills_result, skills_outcome>>
parserVars == <<file_path, parse_result, parse_outcome>>
summaryVars == <<summary>>
compositeVars == <<candidate, composite_out>>
formatVars == <<format_data, format_out>>
contactVars == <<contact_text, name_out>>
educationVars == <<education_data, level_out>>
feedbackVars == <<fb_resume_data, fb_jd_text, fb_ats_score, feedback,
                  feedback_outcome>>
vars == <<scorerVars, rankerVars, batchVars, gradeVars, durationVars,
          extractVars, skillsVars, parserVars, summaryVars, compositeVars,
          formatVars, contactVars, educationVars, feedbackVars>>

----------------------------------------------------------------------------
(* Generic helpers                                                          *)

\* dict.get(key, default)
Get(d, k, default) == IF k \in DOMAIN d THEN d[k] ELSE default

\* Python truthiness of a list / string held as a sequence
Truthy(s) == Len(s) > 0

RECURSIVE SeqSum(_)
SeqSum(s) == IF Len(s) = 0 THEN 0 ELSE Head(s) + SeqSum(Tail(s))

RECURSIVE Concat(_)
\* ' '.join(parts) on word sequences
Concat(parts) ==
    IF Len(parts) = 0 THEN <<>> ELSE Head(parts) \o Concat(Tail(parts))

Range(s) == {s[i] : i \in 1..Len(s)}

\* Exact rationals <<n, d>>, d > 0
Rat(n, d) == <<n, d>>
RInt(n) == <<n, 1>>
RECURSIVE GCD(_, _)
GCD(a, b) == IF b = 0 THEN a ELSE GCD(b, a % b)
Abs(n) == IF n < 0 THEN 0 - n ELSE n
\* Lowest terms
Norm(x) ==
    LET g == GCD(Abs(x[1]), x[2])
    IN  <<x[1] \div g, x[2] \div g>>
RAdd(a, b) == Norm(<<a[1] * b[2] + b[1] * a[2], a[2] * b[2]>>)
RMul(a, b) == Norm(<<a[1] * b[1], a[2] * b[2]>>)
RLe(a, b) == a[1] * b[2] <= b[1] * a[2]
RGe(a, b) == RLe(b, a)
RLt(a, b) == ~RLe(b, a)
REq(a, b) == a[1] * b[2] = b[1] * a[2]
RMin(a, b) == IF RLe(b, a) THEN b ELSE a
RMax(a, b) == IF RGe(b, a) THEN b ELSE a

\* round(x, 2) as a count of hundredths (round-half-even on the exact value)
Round2(x) ==
    LET n == x[1] * 100
        d == x[2]
        q == n \div d
        r == n - q * d
    IN  IF 2 * r > d THEN q + 1
        ELSE IF 2 * r < d THEN q
        ELSE IF q % 2 = 0 THEN q ELSE q + 1


----------------------------------------------------------------------------
(* Words and texts                                                          *)

\* str.lower() on one word
Lower(w) ==
    CASE w = "Python" -> "python"
      [] w = "Software" -> "software"
      [] w = "Engineer" -> "engineer"
      [] w = "Developed" -> "developed"
      [] w = "ML" -> "ml"
      [] w = "Bachelor" -> "bachelor"
      [] w = "Science" -> "science"
      [] w = "Computer" -> "computer"
      [] w = "Built" -> "built"
      [] w = "APIs" -> "apis"
      [] w = "Master" -> "master"
      [] w = "MASTERS" -> "masters"
      [] w = "MBA" -> "mba"
      [] w = "PHD" -> "phd"
      [] w = "DOCTORATE" -> "doctorate"
      [] w = "Doctor" -> "doctor"
      [] w = "Philosophy" -> "philosophy"
      [] w = "ASSOCIATE" -> "associate"
      [] w = "DIPLOMA" -> "diploma"
      [] w = "BS" -> "bs"
      [] w = "Of" -> "of"
      [] w = "Technology" -> "technology"
      [] w = "Not" -> "not"
      [] w = "AWS" -> "aws"
      [] w = "Docker" -> "docker"
      [] w = "Kafka" -> "kafka"
      [] w = "Led" -> "led"
      [] w = "Worked" -> "worked"
      [] w = "Staff" -> "staff"
      [] OTHER -> w

\* text.lower()
LowerText(text) == [i \in 1..Len(text) |-> Lower(text[i])]

\* "a in b" for two lower-case words: equal, or a proper substring of b
ProperSubstrings ==
    { <<"java", "javascript">>, <<"experience", "experienced">>,
      <<"year", "years">>, <<"engineer", "engineering">>,
      <<"master", "masters">>, <<"doctor", "doctorate">> }
IsSubstr(a, b) == a = b \/ <<a, b>> \in ProperSubstrings

\* "word in text" for a word without white space
InText(word, text) == \E i \in 1..Len(text) : IsSubstr(word, text[i])

\* "phrase in text" for a phrase of one or more words
PhraseInText(phrase, text) ==
    IF Len(phrase) = 1 THEN InText(phrase[1], text)
    ELSE \E i \in 1..Len(text) :
            /\ i + Len(phrase) - 1 <= Len(text)
            /\ \A j \in 1..Len(phrase) : text[i + j - 1] = phrase[j]

\* Words that r'\b[a-zA-Z][a-zA-Z+#\.]{2,}\b' does not match: shorter than
\* three characters, or not starting with a letter
NotKeywordShaped == {"go", "5", "3", "3-5", "of", "ML", "a", "an", "or", "in", "on", "at", "to"}

\* Words that r'\d+' matches whole, with int() of the match
NumberWords == {"5", "3"}
IntOf(w) == CASE w = "5" -> 5 [] w = "3" -> 3 [] OTHER -> 0

----------------------------------------------------------------------------
(* ResumeScorer (scorer.py)                                                 *)

stop_words ==
    {"the", "and", "or", "but", "in", "on", "at", "to", "for", "of", "with",
     "a", "an"}

skill_keywords ==
    { <<"python">>, <<"java">>, <<"javascript">>, <<"react">>, <<"sql">>,
      <<"aws">>, <<"docker">>, <<"kubernetes">>, <<"machine", "learning">>,
      <<"data", "analysis">>, <<"tensorflow">> }

EmptyDict == [k \in {} |-> 0]

prepare_resume_text(rd) ==
    LET skills == IF "skills" \in DOMAIN rd
                  THEN Concat(Get(rd.skills, "technical_skills", <<>>)
                              \o Get(rd.skills, "soft_skills", <<>>))
                  ELSE <<>>
        exps == IF "experience" \in DOMAIN rd
                THEN Concat([i \in 1..Len(rd.experience) |->
                        Get(rd.experience[i], "role", <<>>)
                        \o Get(rd.experience[i], "description", <<>>)])
                ELSE <<>>
        edus == IF "education" \in DOMAIN rd
                THEN Concat([i \in 1..Len(rd.education) |->
                        Get(rd.education[i], "degree", <<>>)
                        \o Get(rd.education[i], "field", <<>>)])
                ELSE <<>>
        projs == IF "projects" \in DOMAIN rd
                 THEN Concat([i \in 1..Len(rd.projects) |->
                        Get(rd.projects[i], "description", <<>>)])
                 ELSE <<>>
    IN  skills \o exps \o edus \o projs

extract_keywords(text) ==
    {w \in Range(text) : w \notin NotKeywordShaped /\ Lower(w) \notin stop_words}

calculate_keyword_score(resume_text, jd) ==
    LET jd_keywords == extract_keywords(jd)
        resume_lower == LowerText(resume_text)
        matches == Cardinality({k \in jd_keywords : InText(Lower(k), resume_lower)})
    IN  IF jd_keywords = {} THEN RInt(50)
        ELSE RMin(RInt(100),
                  RMul(Rat(matches, Cardinality(jd_keywords)), RInt(100)))

calculate_skills_match(rd, jd) ==
    IF "skills" \notin DOMAIN rd THEN RInt(0)
    ELSE
      LET resume_skills ==
              {LowerText(s) : s \in Range(Get(rd.skills, "technical_skills", <<>>))}
              \cup {LowerText(s) : s \in Range(Get(rd.skills, "soft_skills", <<>>))}
          jd_lower == LowerText(jd)
          jd_skills == {skill \in skill_keywords : PhraseInText(skill, jd_lower)}
          matching_skills == resume_skills \cap jd_skills
      IN  IF jd_skills = {} THEN RInt(70)
          ELSE RMin(RInt(100),
                    RMul(Rat(Cardinality(matching_skills), Cardinality(jd_skills)),
                         RInt(100)))

\* The position and group(1) of re.search for each pattern; 0 when no match
RangeWords == {"3-5"}
IsYearsWord(w) == IsSubstr("year", Lower(w)) /\ (Lower(w) = "year" \/ Lower(w) = "years")
IsExperienceWord(w) == IsSubstr("experience", Lower(w))
Pattern1At(jd, i) ==
    /\ i + 2 <= Len(jd)
    /\ jd[i] \in NumberWords \cup RangeWords
    /\ IsYearsWord(jd[i + 1])
    /\ \/ IsExperienceWord(jd[i + 2])
       \/ /\ i + 3 <= Len(jd)
          /\ Lower(jd[i + 2]) = "of"
          /\ IsExperienceWord(jd[i + 3])
Pattern2At(jd, i) ==
    /\ i + 2 <= Len(jd)
    /\ Lower(jd[i]) = "minimum"
    /\ jd[i + 1] \in NumberWords
    /\ IsYearsWord(jd[i + 2])
FirstMatch(hits) ==
    IF hits = {} THEN 0 ELSE CHOOSE i \in hits : \A j \in hits : i <= j

RangeFirst(w) == CASE w = "3-5" -> 3 [] OTHER -> 0
\* The digits that end a word: (\d+) of the first pattern matches them when
\* the search starts inside a range such as "3-5"
LastNumber(w) == CASE w = "3-5" -> 5 [] OTHER -> IntOf(w)
Pattern3At(jd, i) ==
    /\ i + 1 <= Len(jd)
    /\ jd[i] \in RangeWords
    /\ IsYearsWord(jd[i + 1])

extract_required_experience(jd) ==
    LET m1 == FirstMatch({i \in 1..Len(jd) : Pattern1At(jd, i)})
        m2 == FirstMatch({i \in 1..Len(jd) : Pattern2At(jd, i)})
        m3 == FirstMatch({i \in 1..Len(jd) : Pattern3At(jd, i)})
    IN  IF m1 # 0 THEN LastNumber(jd[m1])
        ELSE IF m2 # 0 THEN IntOf(jd[m2 + 1])
        ELSE IF m3 # 0 THEN RangeFirst(jd[m3])
        ELSE 0

\* Mutant of calculate_experience_score: the three tiers compared with >
calculate_experience_score_strict(rd, jd) ==
    IF "experience" \notin DOMAIN rd \/ ~Truthy(rd.experience) THEN RInt(30)
    ELSE
      LET required_years == extract_required_experience(jd)
          total_years == Get(Get(rd, "summary", EmptyDict),
                             "total_experience_years", RInt(0))
      IN  IF required_years = 0
          THEN RMin(RInt(100), RAdd(RInt(50), RMul(total_years, RInt(10))))
          ELSE IF RLt(RInt(required_years), total_years) THEN RInt(100)
          ELSE IF RLt(RMul(RInt(required_years), Rat(7, 10)), total_years) THEN RInt(80)
          ELSE IF RLt(RMul(RInt(required_years), Rat(5, 10)), total_years) THEN RInt(60)
          ELSE RInt(40)

\* _calculate_experience_score (scorer.py:190-213)
calculate_experience_score(rd, jd) ==
    IF "experience" \notin DOMAIN rd \/ ~Truthy(rd.experience) THEN RInt(30)
    ELSE
      LET required_years == extract_required_experience(jd)
          total_years == Get(Get(rd, "summary", EmptyDict),
                             "total_experience_years", RInt(0))
      IN  IF required_years = 0
          THEN RMin(RInt(100), RAdd(RInt(50), RMul(total_years, RInt(10))))
          ELSE IF RGe(total_years, RInt(required_years)) THEN RInt(100)
          ELSE IF RGe(total_years, RMul(RInt(required_years), Rat(7, 10))) THEN RInt(80)
          ELSE IF RGe(total_years, RMul(RInt(required_years), Rat(5, 10))) THEN RInt(60)
          ELSE RInt(40)

\* The similarity the library call yields: cosine_similarity of two sentence
\* embeddings (any value of [-1, 1]) or of two TF-IDF vectors (non-negative
\* components, so [0, 1]); either call may raise instead.
EmbeddingSimilarities == {Rat(0 - 8, 100), Rat(0, 1), Rat(6234, 10000), Rat(1, 1)}
TfidfSimilarities == {Rat(0, 1), Rat(3712, 10000), Rat(6998, 10000), Rat(1, 1)}
LibraryOutcomes(emb) ==
    {[raised |-> TRUE, similarity |-> Rat(0, 1)]}
    \cup {[raised |-> FALSE, similarity |-> s] :
            s \in IF emb THEN EmbeddingSimilarities ELSE TfidfSimilarities}

calculate_semantic_score(lib) ==
    IF lib.raised THEN RInt(50) ELSE RMul(lib.similarity, RInt(100))

calculate_tfidf_similarity(lib) ==
    IF lib.raised THEN RInt(50) ELSE RMul(lib.similarity, RInt(100))

\* Mutant of calculate_format_score: the result is not capped at 100
calculate_format_score_uncapped(rd) ==
    LET s0 == 100
        s1 == IF ~Truthy(Get(Get(rd, "contact", EmptyDict), "email", <<>>))
              THEN s0 - 15 ELSE s0
        s2 == IF ~Truthy(Get(rd, "experience", <<>>)) THEN s1 - 20 ELSE s1
        s3 == IF ~Truthy(Get(rd, "education", <<>>)) THEN s2 - 15 ELSE s2
        s4 == IF ~Truthy(Get(Get(rd, "skills", EmptyDict), "technical_skills", <<>>))
              THEN s3 - 20 ELSE s3
        s5 == IF Truthy(Get(rd, "projects", <<>>)) THEN s4 + 5 ELSE s4
        s6 == IF Truthy(Get(rd, "certifications", <<>>)) THEN s5 + 5 ELSE s5
    IN  RMax(RInt(0), RInt(s6))

\* _calculate_format_score (scorer.py:257-281)
calculate_format_score(rd) ==
    LET s0 == 100
        s1 == IF ~Truthy(Get(Get(rd, "contact", EmptyDict), "email", <<>>))
              THEN s0 - 15 ELSE s0
        s2 == IF ~Truthy(Get(rd, "experience", <<>>)) THEN s1 - 20 ELSE s1
        s3 == IF ~Truthy(Get(rd, "education", <<>>)) THEN s2 - 15 ELSE s2
        s4 == IF ~Truthy(Get(Get(rd, "skills", EmptyDict), "technical_skills", <<>>))
              THEN s3 - 20 ELSE s3
        s5 == IF Truthy(Get(rd, "projects", <<>>)) THEN s4 + 5 ELSE s4
        s6 == IF Truthy(Get(rd, "certifications", <<>>)) THEN s5 + 5 ELSE s5
    IN  RMax(RInt(0), RMin(RInt(100), RInt(s6)))

\* Mutant of get_grade: the A+ boundary exclusive
get_grade_exclusive(score) ==
    IF RLt(RInt(90), score) THEN "A+"
    ELSE IF RGe(score, RInt(80)) THEN "A"
    ELSE IF RGe(score, RInt(70)) THEN "B"
    ELSE IF RGe(score, RInt(60)) THEN "C"
    ELSE IF RGe(score, RInt(50)) THEN "D"
    ELSE "F"

get_grade(score) ==
    IF RGe(score, RInt(90)) THEN "A+"
    ELSE IF RGe(score, RInt(80)) THEN "A"
    ELSE IF RGe(score, RInt(70)) THEN "B"
    ELSE IF RGe(score, RInt(60)) THEN "C"
    ELSE IF RGe(score, RInt(50)) THEN "D"
    ELSE "F"

get_match_status(score) ==
    IF RGe(score, RInt(85)) THEN "Strong Match - Highly Recommended"
    ELSE IF RGe(score, RInt(70)) THEN "Good Match - Recommended"
    ELSE IF RGe(score, RInt(55)) THEN "Moderate Match - Consider"
    ELSE "Weak Match - Not Recommended"

\* The five sub-scores of one call (scorer.py:55-75)
SubScores(rd, jd, emb, lib) ==
    LET resume_text == prepare_resume_text(rd)
    IN  [keyword_score |-> calculate_keyword_score(resume_text, jd),
         skills_score |-> calculate_skills_match(rd, jd),
         experience_score |-> calculate_experience_score(rd, jd),
         semantic_score |-> IF emb THEN calculate_semantic_score(lib)
                            ELSE calculate_tfidf_similarity(lib),
         format_score |-> calculate_format_score(rd)]

\* Mutant of WeightedTotal: the weights of keyword and skills exchanged
WeightedTotal_swapped(s) ==
    RAdd(RMul(s.keyword_score, Rat(25, 100)),
    RAdd(RMul(s.skills_score, Rat(30, 100)),
    RAdd(RMul(s.experience_score, Rat(20, 100)),
    RAdd(RMul(s.semantic_score, Rat(15, 100)),
         RMul(s.format_score, Rat(10, 100))))))

\* The weighted total (scorer.py:78-84)
WeightedTotal(s) ==
    RAdd(RMul(s.keyword_score, Rat(30, 100)),
    RAdd(RMul(s.skills_score, Rat(25, 100)),
    RAdd(RMul(s.experience_score, Rat(20, 100)),
    RAdd(RMul(s.semantic_score, Rat(15, 100)),
         RMul(s.format_score, Rat(10, 100))))))

\* The result dict (scorer.py:86-97); numbers are hundredths
BuildResult(s, total) ==
    [final_score |-> Round2(total),
     breakdown |-> [keyword_score |-> Round2(s.keyword_score),
                    skills_score |-> Round2(s.skills_score),
                    experience_score |-> Round2(s.experience_score),
                    semantic_score |-> Round2(s.semantic_score),
                    format_score |-> Round2(s.format_score)],
     grade |-> get_grade(total),
     status |-> get_match_status(total)]

\* The key the closing log line reads from the result (scorer.py:99)
LoggedKey == "total_score"

ZeroScores ==
    [keyword_score |-> RInt(0), skills_score |-> RInt(0),
     experience_score |-> RInt(0), semantic_score |-> RInt(0),
     format_score |-> RInt(0)]

\* score_resume: computes the sub-scores and the total, builds the result,
\* then formats the log line from result[LoggedKey]; a missing key raises
\* KeyError out of the call and nothing is returned.
score_resume ==
    /\ score_outcome = "idle"
    /\ \E lib \in LibraryOutcomes(use_embeddings) :
         /\ sub_scores' = SubScores(resume_data, jd_text, use_embeddings, lib)
         /\ total_score' = WeightedTotal(sub_scores')
         /\ result' = BuildResult(sub_scores', total_score')
         /\ score_outcome' = IF LoggedKey \in DOMAIN result'
                             THEN "returned" ELSE "KeyError"
    /\ UNCHANGED <<resume_data, jd_text, use_embeddings>>
    /\ UNCHANGED <<rankerVars, batchVars, gradeVars, durationVars, extractVars>>
    /\ UNCHANGED <<skillsVars, parserVars, summaryVars, compositeVars>>
    /\ UNCHANGED <<formatVars, contactVars, educationVars, feedbackVars>>

----------------------------------------------------------------------------
(* Inputs of the scorer                                                     *)

MaxJDLen == 3

\* The words a job description is made of: a capitalised skill, a skill, a
\* stop word, a word too short to be a keyword, and the words of the three
\* years-of-experience phrases
JDWords ==
    {"Python", "java", "the", "go", "5", "years", "experience", "minimum",
     "3-5"}
JDTexts == UNION {[1..n -> JDWords] : n \in 0..MaxJDLen}

\* The record of tests/test_scorer.py:25-48
TestRecord ==
    [skills |-> [technical_skills |-> << <<"python">>, <<"java">>,
                                         <<"machine", "learning">> >>,
                 soft_skills |-> << <<"leadership">>, <<"communication">> >>,
                 total_count |-> 5],
     experience |-> << [role |-> <<"Software", "Engineer">>,
                        company |-> <<"Tech", "Corp">>,
                        duration_years |-> Rat(3, 1),
                        description |-> <<"Developed", "ML", "models">>] >>,
     education |-> << [degree |-> <<"Bachelor", "of", "Science">>,
                       field |-> <<"Computer", "Science">>] >>,
     summary |-> [total_experience_years |-> Rat(3, 1)]]

\* What extract_all returns for a text with no recognisable section
BlankRecord ==
    [contact |-> [email |-> <<>>],
     skills |-> [technical_skills |-> <<>>, soft_skills |-> <<>>,
                 total_count |-> 0],
     experience |-> <<>>,
     education |-> <<>>,
     projects |-> <<>>,
     certifications |-> <<>>,
     summary |-> [total_experience_years |-> Rat(0, 1),
                  education_level |-> "Not specified"]]

\* A complete record: every section present
FullRecord ==
    [contact |-> [email |-> <<"jane@x.com">>],
     skills |-> [technical_skills |-> << <<"python">>, <<"javascript">>,
                                         <<"sql">> >>,
                 soft_skills |-> << <<"leadership">> >>,
                 total_count |-> 4],
     experience |-> << [role |-> <<"Software", "Engineer">>,
                        company |-> <<"Acme">>,
                        duration_years |-> Rat(68, 10),
                        description |-> <<"Built", "APIs">>],
                       [role |-> <<"intern">>,
                        company |-> <<"Acme">>,
                        duration_years |-> Rat(5, 10),
                        description |-> <<"experienced", "go">>] >>,
     education |-> << [degree |-> <<"Bachelor", "of", "Science">>,
                       field |-> <<"Computer", "Science">>] >>,
     projects |-> << [name |-> <<"compiler">>,
                      description |-> <<"compiler", "in", "python">>] >>,
     certifications |-> << <<"aws", "architect">> >>,
     summary |-> [total_experience_years |-> Rat(73, 10),
                  education_level |-> "Bachelor"]]

\* One position, with the given total of years
WithYears(y) ==
    [contact |-> [email |-> <<"joe@x.com">>],
     skills |-> [technical_skills |-> << <<"java">> >>, soft_skills |-> <<>>,
                 total_count |-> 1],
     experience |-> << [role |-> <<"developer">>,
                        company |-> <<"Acme">>,
                        duration_years |-> y,
                        description |-> <<"java", "services">>] >>,
     education |-> <<>>,
     projects |-> <<>>,
     certifications |-> <<>>,
     summary |-> [total_experience_years |-> y,
                  education_level |-> "Not specified"]]

Records ==
    {EmptyDict, TestRecord, BlankRecord, FullRecord,
     WithYears(Rat(1, 1)), WithYears(Rat(25, 10)), WithYears(Rat(35, 10))}

----------------------------------------------------------------------------
(* Idle values of each component's variables                                *)

ScorerIdle ==
    /\ resume_data = EmptyDict
    /\ jd_text = <<>>
    /\ use_embeddings = FALSE
    /\ sub_scores = ZeroScores
    /\ total_score = RInt(0)
    /\ result = EmptyDict
    /\ score_outcome = "idle"

RankerIdle ==
    /\ resumes_data = <<>>
    /\ ranked = <<>>
    /\ prev_ranked = <<>>
    /\ rank_outcome = "idle"
    /\ rank_calls = 0

BatchIdle ==
    /\ pc = "idle"
    /\ resume_files = <<>>
    /\ file_idx = 0
    /\ results = <<>>
    /\ processed = <<>>
    /\ exit_code = 0
    /\ reports_saved = FALSE

GradeIdle ==
    /\ grade_score = 0
    /\ grade_out = "none"

DurationIdle ==
    /\ start_date = [is_none |-> TRUE, parts |-> <<>>]
    /\ end_date = [is_none |-> TRUE, parts |-> <<>>]
    /\ now = <<2026, 11>>
    /\ duration_out = [called |-> FALSE, raised |-> FALSE, value |-> 0]

ExtractIdle ==
    /\ section_text = <<>>
    /\ experiences = <<>>
    /\ extract_outcome = "idle"

SkillsIdle ==
    /\ skills_text = <<>>
    /\ skills_result = [technical_skills |-> <<>>, soft_skills |-> <<>>,
                        total_count |-> 0]
    /\ skills_outcome = "idle"

ParserIdle ==
    /\ file_path = [name |-> "", exists |-> FALSE, content |-> "unreadable"]
    /\ parse_result = [k \in {} |-> 0]
    /\ parse_outcome = "idle"

SummaryIdle == summary = [k \in {} |-> 0]
CompositeIdle ==
    /\ candidate = [k \in {} |-> 0]
    /\ composite_out = [called |-> FALSE, value |-> 0]
FormatIdle ==
    /\ format_data = [k \in {} |-> 0]
    /\ format_out = [called |-> FALSE, value |-> RInt(0)]
ContactIdle ==
    /\ contact_text = <<>>
    /\ name_out = [called |-> FALSE, is_none |-> TRUE, line |-> <<>>]
EducationIdle ==
    /\ education_data = <<>>
    /\ level_out = [called |-> FALSE, level |-> ""]
FeedbackIdle ==
    /\ fb_resume_data = [k \in {} |-> 0]
    /\ fb_jd_text = [is_none |-> TRUE, text |-> <<>>]
    /\ fb_ats_score = [is_none |-> TRUE, dict |-> [k \in {} |-> 0]]
    /\ feedback = [k \in {} |-> 0]
    /\ feedback_outcome = "idle"

----------------------------------------------------------------------------
(* Specification of the scorer: one score_resume call on any record and JD  *)

InitScorer ==
    /\ resume_data \in Records
    /\ jd_text \in JDTexts
    /\ use_embeddings \in BOOLEAN
    /\ sub_scores = ZeroScores
    /\ total_score = RInt(0)
    /\ result = EmptyDict
    /\ score_outcome = "idle"
    /\ RankerIdle /\ BatchIdle /\ GradeIdle /\ DurationIdle /\ ExtractIdle
    /\ SkillsIdle /\ ParserIdle /\ SummaryIdle /\ CompositeIdle
    /\ FormatIdle /\ ContactIdle /\ EducationIdle /\ FeedbackIdle

NextScorer == score_resume

SpecScorer == InitScorer /\ [][NextScorer]_vars

----------------------------------------------------------------------------
(* Claims about score_resume                                                *)

ScoreDone == score_outcome # "idle"

SubScoreNames ==
    {"keyword_score", "skills_score", "experience_score", "semantic_score",
     "format_score"}

\* C1: for every record and JD, score_resume returns normally a result that
\* has the keys total_score, breakdown and grade, with 0 <= total_score <= 100
\* (hundredths: 0..10000).
C1_ScoreReturnsResultInRange ==
    ScoreDone =>
        /\ score_outcome = "returned"
        /\ {"total_score", "breakdown", "grade"} \subseteq DOMAIN result
        /\ result.total_score >= 0
        /\ result.total_score <= 10000

\* C6: each of the five sub-scores computed by score_resume lies in [0, 100],
\* on the embedding path and on the TF-IDF path, also when the similarity
\* computation fails and the fallback constant is used.
C6_SubScoresInRange ==
    ScoreDone =>
        \A k \in SubScoreNames :
            RGe(sub_scores[k], RInt(0)) /\ RLe(sub_scores[k], RInt(100))

----------------------------------------------------------------------------
(* ResumeScorer._get_grade on its own                                       *)

\* Scores are tried from -GradeMargin to 100 + GradeMargin, each whole point
\* with the thousandth below and above it
GradeMargin == 5
GradeScores ==
    {1000 * p + d : p \in (0 - GradeMargin)..(100 + GradeMargin),
                    d \in {0 - 1, 0, 1}}

call_get_grade ==
    /\ grade_out = "none"
    /\ grade_out' = get_grade(Rat(grade_score, 1000))
    /\ UNCHANGED grade_score
    /\ UNCHANGED <<scorerVars, rankerVars, batchVars, durationVars, extractVars>>
    /\ UNCHANGED <<skillsVars, parserVars, summaryVars, compositeVars>>
    /\ UNCHANGED <<formatVars, contactVars, educationVars, feedbackVars>>

InitGrade ==
    /\ grade_score \in GradeScores
    /\ grade_out = "none"
    /\ ScorerIdle /\ RankerIdle /\ BatchIdle /\ DurationIdle /\ ExtractIdle
    /\ SkillsIdle /\ ParserIdle /\ SummaryIdle /\ CompositeIdle
    /\ FormatIdle /\ ContactIdle /\ EducationIdle /\ FeedbackIdle

NextGrade == call_get_grade

SpecGrade == InitGrade /\ [][NextGrade]_vars

----------------------------------------------------------------------------
(* ResumeRanker (ranker.py)                                                 *)

\* d[k] = v on a dict
SetKey(d, k, v) == [x \in DOMAIN d \cup {k} |-> IF x = k THEN v ELSE d[x]]

RECURSIVE RSum(_)
RSum(s) == IF Len(s) = 0 THEN RInt(0) ELSE RAdd(Head(s), RSum(Tail(s)))

edu_scores(level) ==
    CASE level = "Phd" -> 100
      [] level = "Doctorate" -> 100
      [] level = "Master" -> 85
      [] level = "Mba" -> 85
      [] level = "Bachelor" -> 70
      [] level = "Associate" -> 50
      [] level = "Diploma" -> 40
      [] OTHER -> 30

\* Mutant of calculate_composite_score: the weights of skills and experience
\* exchanged
calculate_composite_score_swapped(rd) ==
    IF /\ "ats_score" \in DOMAIN rd
       /\ "breakdown" \in DOMAIN rd.ats_score
       /\ "total_score" \in DOMAIN rd.ats_score
    THEN rd.ats_score.total_score
    ELSE
      LET extracted == Get(rd, "extracted_data", rd)
          skills_data == Get(extracted, "skills", EmptyDict)
          total_skills == Get(skills_data, "total_count", 0)
          skills == RMin(RInt(100), RInt(total_skills * 5))
          experience_data == Get(extracted, "experience", <<>>)
          total_years ==
              RSum([i \in 1..Len(experience_data) |->
                      Get(experience_data[i], "duration_years", RInt(0))])
          experience == RMin(RInt(100), RMul(total_years, RInt(20)))
          education_level == Get(Get(extracted, "summary", EmptyDict),
                                 "education_level", "Not specified")
          education == RInt(edu_scores(education_level))
          projects == RMin(RInt(100),
                           RInt(Len(Get(extracted, "projects", <<>>)) * 25))
          composite ==
              RAdd(RMul(skills, Rat(30, 100)),
              RAdd(RMul(experience, Rat(40, 100)),
              RAdd(RMul(education, Rat(20, 100)),
                   RMul(projects, Rat(10, 100)))))
      IN  Round2(composite)

\* The composite in hundredths: the ats_score's total_score when the dict has
\* the keys breakdown and total_score, else the rounded weighted sum derived
\* from the extracted data
calculate_composite_score(rd) ==
    IF /\ "ats_score" \in DOMAIN rd
       /\ "breakdown" \in DOMAIN rd.ats_score
       /\ "total_score" \in DOMAIN rd.ats_score
    THEN rd.ats_score.total_score
    ELSE
      LET extracted == Get(rd, "extracted_data", rd)
          skills_data == Get(extracted, "skills", EmptyDict)
          total_skills == Get(skills_data, "total_count", 0)
          skills == RMin(RInt(100), RInt(total_skills * 5))
          experience_data == Get(extracted, "experience", <<>>)
          total_years ==
              RSum([i \in 1..Len(experience_data) |->
                      Get(experience_data[i], "duration_years", RInt(0))])
          experience == RMin(RInt(100), RMul(total_years, RInt(20)))
          education_level == Get(Get(extracted, "summary", EmptyDict),
                                 "education_level", "Not specified")
          education == RInt(edu_scores(education_level))
          projects == RMin(RInt(100),
                           RInt(Len(Get(extracted, "projects", <<>>)) * 25))
          composite ==
              RAdd(RMul(skills, Rat(40, 100)),
              RAdd(RMul(experience, Rat(30, 100)),
              RAdd(RMul(education, Rat(20, 100)),
                   RMul(projects, Rat(10, 100)))))
      IN  Round2(composite)

\* Mutant of sorted_desc: candidates of equal composite come out in reverse
\* input order (a sort that is not stable under reverse=True)
RECURSIVE insert_before_equal(_, _)
insert_before_equal(x, s) ==
    IF Len(s) = 0 THEN <<x>>
    ELSE IF s[1].composite_score > x.composite_score
         THEN <<s[1]>> \o insert_before_equal(x, Tail(s))
         ELSE <<x>> \o s
RECURSIVE sorted_desc_unstable(_)
sorted_desc_unstable(s) ==
    IF Len(s) = 0 THEN <<>>
    ELSE insert_before_equal(s[Len(s)], sorted_desc_unstable(SubSeq(s, 1, Len(s) - 1)))

\* sorted(resumes_data, key=composite_score, reverse=True): a stable sort, so
\* each element is placed after every element whose key is >= its own
RECURSIVE insert_after_equal(_, _)
insert_after_equal(x, s) ==
    IF Len(s) = 0 THEN <<x>>
    ELSE IF s[1].composite_score >= x.composite_score
         THEN <<s[1]>> \o insert_after_equal(x, Tail(s))
         ELSE <<x>> \o s
RECURSIVE sorted_desc(_)
sorted_desc(s) ==
    IF Len(s) = 0 THEN <<>>
    ELSE insert_after_equal(s[Len(s)], sorted_desc(SubSeq(s, 1, Len(s) - 1)))

\* Mutant of RankedList: enumerate(ranked) without its start of 1
RankedList_zero_based(list) ==
    LET scored == [i \in 1..Len(list) |->
                     SetKey(SetKey(list[i], "composite_score",
                                   calculate_composite_score(list[i])),
                            "original_index", i - 1)]
        srt == sorted_desc(scored)
    IN  [i \in 1..Len(srt) |-> SetKey(srt[i], "rank", i - 1)]

\* The list rank_resumes builds: composite_score and original_index set on
\* every dict, the list sorted, rank set by position
RankedList(list) ==
    LET scored == [i \in 1..Len(list) |->
                     SetKey(SetKey(list[i], "composite_score",
                                   calculate_composite_score(list[i])),
                            "original_index", i - 1)]
        srt == sorted_desc(scored)
    IN  [i \in 1..Len(srt) |-> SetKey(srt[i], "rank", i)]

\* The outcome of one rank_resumes call: the closing log line reads
\* ranked[0], which raises IndexError on an empty list
RankCall(list) ==
    LET r == RankedList(list)
    IN  [outcome |-> IF Len(r) = 0 THEN "IndexError" ELSE "returned",
         ranked |-> r]

\* The dict of list `l` that has the given file name
ByName(l, name) == l[CHOOSE i \in 1..Len(l) : l[i].file_name = name]

MaxRankCalls == 2

\* rank_resumes, applied to the caller's list on the first call and to the
\* list the previous call returned on every later call.  The dicts are
\* mutated in place, so the caller's list sees the new fields too.
rank_resumes ==
    /\ rank_calls < MaxRankCalls
    /\ rank_outcome # "IndexError"
    /\ LET input == IF rank_calls = 0 THEN resumes_data ELSE ranked
           call == RankCall(input)
       IN  /\ rank_outcome' = call.outcome
           /\ prev_ranked' = ranked
           /\ ranked' = IF call.outcome = "returned" THEN call.ranked ELSE ranked
           /\ resumes_data' =
                [i \in 1..Len(resumes_data) |->
                    ByName(call.ranked, resumes_data[i].file_name)]
    /\ rank_calls' = rank_calls + 1
    /\ UNCHANGED <<scorerVars, batchVars, gradeVars, durationVars, extractVars>>
    /\ UNCHANGED <<skillsVars, parserVars, summaryVars, compositeVars>>
    /\ UNCHANGED <<formatVars, contactVars, educationVars, feedbackVars>>

----------------------------------------------------------------------------
(* Inputs of the ranker                                                     *)

MaxResumes == 3

\* A caller-made score dict with the key total_score (hundredths), shaped as
\* the placeholder of analyzer.py:91
ScoreDictWithTotal(t) ==
    [total_score |-> t, breakdown |-> EmptyDict, grade |-> "N/A",
     match_status |-> "N/A"]

\* The dict score_resume builds for FullRecord against "Python java" on the
\* TF-IDF path
ScorerBuiltDict ==
    LET s == SubScores(FullRecord, <<"Python", "java">>, FALSE,
                       [raised |-> FALSE, similarity |-> Rat(3712, 10000)])
    IN  BuildResult(s, WeightedTotal(s))

CandidatePool ==
    { [file_name |-> "a.pdf", extracted_data |-> BlankRecord,
       ats_score |-> ScoreDictWithTotal(9000)],
      [file_name |-> "b.pdf", extracted_data |-> BlankRecord,
       ats_score |-> ScoreDictWithTotal(7000)],
      [file_name |-> "c.pdf", extracted_data |-> TestRecord,
       ats_score |-> ScoreDictWithTotal(9000)],
      [file_name |-> "d.pdf", extracted_data |-> FullRecord,
       ats_score |-> ScorerBuiltDict],
      [file_name |-> "e.pdf", extracted_data |-> WithYears(Rat(25, 10))] }

IsInjective(s) == \A i, j \in 1..Len(s) : s[i] = s[j] => i = j
CandidateLists ==
    {s \in UNION {[1..n -> CandidatePool] : n \in 0..MaxResumes} : IsInjective(s)}

InitRanker ==
    /\ resumes_data \in CandidateLists
    /\ ranked = <<>>
    /\ prev_ranked = <<>>
    /\ rank_outcome = "idle"
    /\ rank_calls = 0
    /\ ScorerIdle /\ BatchIdle /\ GradeIdle /\ DurationIdle /\ ExtractIdle
    /\ SkillsIdle /\ ParserIdle /\ SummaryIdle /\ CompositeIdle
    /\ FormatIdle /\ ContactIdle /\ EducationIdle /\ FeedbackIdle

NextRanker == rank_resumes

SpecRanker == InitRanker /\ [][NextRanker]_vars

----------------------------------------------------------------------------
(* Claims about rank_resumes                                                *)

\* The keys of the dict score_resume builds
IsScorerResult(a) == DOMAIN a = DOMAIN BuildResult(ZeroScores, RInt(0))

\* The list the latest call was applied to
RankInput == IF rank_calls = 1 THEN resumes_data ELSE prev_ranked
PosIn(l, name) == CHOOSE i \in 1..Len(l) : l[i].file_name = name

\* C2: for a candidate whose ats_score is the result score_resume produced,
\* rank_resumes uses that result's final score as the composite_score and
\* does not recompute it from the extracted record.
C2_CompositeIsScorerFinalScore ==
    rank_outcome = "returned" =>
        \A i \in 1..Len(ranked) :
            ("ats_score" \in DOMAIN ranked[i] /\ IsScorerResult(ranked[i].ats_score))
                => ranked[i].composite_score = ranked[i].ats_score.final_score

\* C4: the returned list is in non-increasing order of composite score, and
\* two candidates of equal composite keep their relative input order.
C4_SortedDescendingStable ==
    rank_outcome = "returned" =>
        \A i, j \in 1..Len(ranked) :
            i < j =>
                /\ ranked[i].composite_score >= ranked[j].composite_score
                /\ ranked[i].composite_score = ranked[j].composite_score
                    => PosIn(RankInput, ranked[i].file_name)
                         < PosIn(RankInput, ranked[j].file_name)

\* C4 witness: composites [90, 70, 90] came back as input 0, input 2, input 1
C4_Witness ==
    /\ rank_outcome = "returned"
    /\ rank_calls = 1
    /\ Len(resumes_data) = 3
    /\ [i \in 1..3 |-> resumes_data[i].composite_score] = <<9000, 7000, 9000>>
    /\ [i \in 1..3 |-> ranked[i].file_name]
         = <<resumes_data[1].file_name, resumes_data[3].file_name,
             resumes_data[2].file_name>>

\* C5: ranking the list a previous call returned gives the same candidates
\* in the same order with the same rank and composite_score.
C5_RerankIdempotent ==
    (rank_outcome = "returned" /\ rank_calls >= 2) =>
        /\ Len(ranked) = Len(prev_ranked)
        /\ \A i \in 1..Len(ranked) :
              /\ ranked[i].file_name = prev_ranked[i].file_name
              /\ ranked[i].rank = prev_ranked[i].rank
              /\ ranked[i].composite_score = prev_ranked[i].composite_score

\* C5 witness: a second call on a list that the first call reordered and that
\* holds two candidates of equal composite
C5_Witness ==
    /\ rank_outcome = "returned"
    /\ rank_calls >= 2
    /\ \E i, j \in 1..Len(ranked) :
          i # j /\ ranked[i].composite_score = ranked[j].composite_score
    /\ \E i \in 1..Len(ranked) : ranked[i].file_name # resumes_data[i].file_name

----------------------------------------------------------------------------
(* ResumeAnalyzerCLI.analyze_batch (analyzer.py)                            *)

\* One score_resume call as a value: what it built and how it ended
ScoreCall(rd, jd, emb, lib) ==
    LET s == SubScores(rd, jd, emb, lib)
        res == BuildResult(s, WeightedTotal(s))
    IN  [outcome |-> IF LoggedKey \in DOMAIN res THEN "returned" ELSE "KeyError",
         result |-> res]

\* The body of the loop's try block for one file (analyzer.py:148-165): the
\* dict appended to results, or the exception that ends the iteration
ProcessFile(file, jd, emb, lib) ==
    IF ~file.parse_ok THEN [raised |-> TRUE, entry |-> EmptyDict]
    ELSE IF ~file.extract_ok THEN [raised |-> TRUE, entry |-> EmptyDict]
    ELSE
      LET call == ScoreCall(file.extracted_data, jd, emb, lib)
      IN  IF call.outcome # "returned" THEN [raised |-> TRUE, entry |-> EmptyDict]
          ELSE [raised |-> FALSE,
                entry |-> [file_name |-> file.file_name,
                           extracted_data |-> file.extracted_data,
                           ats_score |-> call.result,
                           feedback |-> EmptyDict]]

\* _display_rankings slices contact name [:24] for the first topk entries;
\* a name of None raises TypeError
DisplayRaises(list, topk) ==
    \E i \in 1..Len(list) :
        /\ i <= topk
        /\ LET contact == Get(Get(list[i], "extracted_data", EmptyDict),
                              "contact", EmptyDict)
           IN  "name" \in DOMAIN contact /\ ~Truthy(contact.name)

topk == 5

\* analyzer.py:130-145: list the files; return at once when there is none
analyze_batch_start ==
    /\ pc = "start"
    /\ IF Len(resume_files) = 0
       THEN pc' = "done" /\ file_idx' = 0
       ELSE pc' = "loop" /\ file_idx' = 1
    /\ results' = <<>>
    /\ UNCHANGED <<resume_files, processed, exit_code, reports_saved>>
    /\ UNCHANGED <<scorerVars, rankerVars, gradeVars, durationVars, extractVars>>
    /\ UNCHANGED <<skillsVars, parserVars, summaryVars, compositeVars>>
    /\ UNCHANGED <<formatVars, contactVars, educationVars, feedbackVars>>

\* analyzer.py:147-169: one iteration; any exception is logged and the loop
\* continues with the next file
analyze_batch_document ==
    /\ pc = "loop"
    /\ \E lib \in LibraryOutcomes(use_embeddings) :
         LET done == ProcessFile(resume_files[file_idx], jd_text,
                                 use_embeddings, lib)
         IN  results' = IF done.raised THEN results
                        ELSE Append(results, done.entry)
    /\ processed' = Append(processed, resume_files[file_idx].file_name)
    /\ IF file_idx = Len(resume_files)
       THEN pc' = "rank" /\ file_idx' = file_idx
       ELSE pc' = "loop" /\ file_idx' = file_idx + 1
    /\ UNCHANGED <<resume_files, exit_code, reports_saved>>
    /\ UNCHANGED <<scorerVars, rankerVars, gradeVars, durationVars, extractVars>>
    /\ UNCHANGED <<skillsVars, parserVars, summaryVars, compositeVars>>
    /\ UNCHANGED <<formatVars, contactVars, educationVars, feedbackVars>>

\* analyzer.py:171-186: rank, display, save the reports; an exception here
\* reaches the outer handler, which exits with status 1
analyze_batch_finish ==
    /\ pc = "rank"
    /\ LET call == RankCall(results)
       IN  IF call.outcome # "returned" \/ DisplayRaises(call.ranked, topk)
           THEN exit_code' = 1 /\ reports_saved' = FALSE
           ELSE exit_code' = 0 /\ reports_saved' = TRUE
    /\ pc' = "done"
    /\ UNCHANGED <<resume_files, file_idx, results, processed>>
    /\ UNCHANGED <<scorerVars, rankerVars, gradeVars, durationVars, extractVars>>
    /\ UNCHANGED <<skillsVars, parserVars, summaryVars, compositeVars>>
    /\ UNCHANGED <<formatVars, contactVars, educationVars, feedbackVars>>

----------------------------------------------------------------------------
(* Inputs of the batch run                                                  *)

MaxFiles == 3

\* What a file of the directory can be: unreadable, readable with a text the
\* extractor raises on, or readable and extracted to a record
FileKinds ==
    { [parse_ok |-> FALSE, extract_ok |-> FALSE, extracted_data |-> EmptyDict],
      [parse_ok |-> TRUE, extract_ok |-> FALSE, extracted_data |-> EmptyDict],
      [parse_ok |-> TRUE, extract_ok |-> TRUE, extracted_data |-> BlankRecord],
      [parse_ok |-> TRUE, extract_ok |-> TRUE, extracted_data |-> FullRecord] }

FileName(i) == CASE i = 1 -> "r1.pdf" [] i = 2 -> "r2.pdf" [] i = 3 -> "r3.pdf"
                 [] OTHER -> "r4.pdf"

\* sorted(resume_files): the names ascend with the position
FileLists ==
    UNION {{[i \in 1..n |-> SetKey(kinds[i], "file_name", FileName(i))] :
                kinds \in [1..n -> FileKinds]} : n \in 0..MaxFiles}

InitBatch ==
    /\ pc = "start"
    /\ resume_files \in FileLists
    /\ file_idx = 0
    /\ results = <<>>
    /\ processed = <<>>
    /\ exit_code = 0
    /\ reports_saved = FALSE
    /\ resume_data = EmptyDict
    /\ jd_text \in {<<>>, <<"Python", "java">>}
    /\ use_embeddings \in BOOLEAN
    /\ sub_scores = ZeroScores
    /\ total_score = RInt(0)
    /\ result = EmptyDict
    /\ score_outcome = "idle"
    /\ RankerIdle /\ GradeIdle /\ DurationIdle /\ ExtractIdle
    /\ SkillsIdle /\ ParserIdle /\ SummaryIdle /\ CompositeIdle
    /\ FormatIdle /\ ContactIdle /\ EducationIdle /\ FeedbackIdle

NextBatch ==
    \/ analyze_batch_start
    \/ analyze_batch_document
    \/ analyze_batch_finish

SpecBatch == InitBatch /\ [][NextBatch]_vars

\* C3: an exception raised for one document never aborts the run: the
\* document is skipped, every later document is still processed in input
\* order, and the run then proceeds to ranking and report writing.
C3_BatchSurvivesDocumentFailure ==
    /\ \A i \in 1..Len(processed) : processed[i] = resume_files[i].file_name
    /\ (pc = "done" /\ Len(resume_files) > 0) =>
          /\ Len(processed) = Len(resume_files)
          /\ Len(results) < Len(processed) => (exit_code = 0 /\ reports_saved)

----------------------------------------------------------------------------
(* ExperienceParser._calculate_duration (experience_parser.py)              *)

\* A date argument: None, or a string held as its split('-') parts
NoneDate == [is_none |-> TRUE, parts |-> <<>>]
Str(parts) == [is_none |-> FALSE, parts |-> parts]

\* int(part): the parts that parse, and their values
IntPart(p) ==
    CASE p = "2015" -> 2015 [] p = "2018" -> 2018 [] p = "2019" -> 2019
      [] p = "2020" -> 2020 [] p = "2021" -> 2021
      [] p = "01" -> 1 [] p = "02" -> 2 [] p = "03" -> 3 [] p = "04" -> 4
      [] p = "05" -> 5 [] p = "06" -> 6 [] p = "07" -> 7 [] p = "08" -> 8
      [] p = "09" -> 9 [] p = "10" -> 10 [] p = "11" -> 11 [] p = "12" -> 12
      [] OTHER -> 0 - 1
IsIntPart(p) == IntPart(p) >= 0

\* Python truthiness of the argument: neither None nor ''
TruthyDate(d) == ~d.is_none /\ d.parts # <<"">>

\* "year-month" or "year" to (year, month); ok is FALSE where map(int, ...)
\* or the unpacking raises ValueError
ParseDate(d, default_month) ==
    IF Len(d.parts) > 1
    THEN IF Len(d.parts) = 2 /\ IsIntPart(d.parts[1]) /\ IsIntPart(d.parts[2])
         THEN [ok |-> TRUE, year |-> IntPart(d.parts[1]), month |-> IntPart(d.parts[2])]
         ELSE [ok |-> FALSE, year |-> 0, month |-> 0]
    ELSE IF IsIntPart(d.parts[1])
         THEN [ok |-> TRUE, year |-> IntPart(d.parts[1]), month |-> default_month]
         ELSE [ok |-> FALSE, year |-> 0, month |-> 0]

Max(a, b) == IF a >= b THEN a ELSE b

\* The try block (experience_parser.py:227-247): the difference in months,
\* or an exception
duration_try(start, end, clock) ==
    LET s == ParseDate(start, 1)
        e == IF TruthyDate(end) THEN ParseDate(end, 12)
             ELSE [ok |-> TRUE, year |-> clock[1], month |-> clock[2]]
    IN  IF ~s.ok \/ ~e.ok THEN [raised |-> TRUE, value |-> 0]
        ELSE [raised |-> FALSE,
              value |-> (e.year - s.year) * 12 + (e.month - s.month)]

\* Mutant of calculate_duration: the months returned without max(0, ...)
calculate_duration_unclamped(start, end, clock) ==
    IF ~TruthyDate(start) THEN [raised |-> FALSE, value |-> 0]
    ELSE LET t == duration_try(start, end, clock)
         IN  IF t.raised THEN [raised |-> FALSE, value |-> 0] ELSE t

\* _calculate_duration: 0 without a start date; the bare except turns any
\* exception of the try block into 0
calculate_duration(start, end, clock) ==
    IF ~TruthyDate(start) THEN [raised |-> FALSE, value |-> 0]
    ELSE LET t == duration_try(start, end, clock)
         IN  IF t.raised THEN [raised |-> FALSE, value |-> 0]
             ELSE [raised |-> FALSE, value |-> Max(0, t.value)]

call_calculate_duration ==
    /\ ~duration_out.called
    /\ LET r == calculate_duration(start_date, end_date, now)
       IN  duration_out' = [called |-> TRUE, raised |-> r.raised, value |-> r.value]
    /\ UNCHANGED <<start_date, end_date, now>>
    /\ UNCHANGED <<scorerVars, rankerVars, batchVars, gradeVars, extractVars>>
    /\ UNCHANGED <<skillsVars, parserVars, summaryVars, compositeVars>>
    /\ UNCHANGED <<formatVars, contactVars, educationVars, feedbackVars>>

----------------------------------------------------------------------------
(* Inputs of _calculate_duration                                            *)

MaxDateParts == 2

\* Two years, a month, the empty string and a word that is no number
DateParts == {"2019", "2021", "06", "", "Current"}
DateStrings ==
    {NoneDate} \cup {Str(p) : p \in UNION {[1..n -> DateParts] : n \in 1..MaxDateParts}}

\* datetime.now() as (year, month)
Clocks == {<<2020, 6>>, <<2026, 11>>}

InitDuration ==
    /\ start_date \in DateStrings
    /\ end_date \in DateStrings
    /\ now \in Clocks
    /\ duration_out = [called |-> FALSE, raised |-> FALSE, value |-> 0]
    /\ ScorerIdle /\ RankerIdle /\ BatchIdle /\ GradeIdle /\ ExtractIdle
    /\ SkillsIdle /\ ParserIdle /\ SummaryIdle /\ CompositeIdle
    /\ FormatIdle /\ ContactIdle /\ EducationIdle /\ FeedbackIdle

NextDuration == call_calculate_duration

SpecDuration == InitDuration /\ [][NextDuration]_vars

\* The (year, month) each argument stands for, where it has one
StartParsed == ParseDate(start_date, 1)
EndParsed ==
    IF TruthyDate(end_date) THEN ParseDate(end_date, 12)
    ELSE [ok |-> TRUE, year |-> now[1], month |-> now[2]]
ParsingFails == TruthyDate(start_date) /\ (~StartParsed.ok \/ ~EndParsed.ok)
EndPrecedesStart ==
    /\ TruthyDate(start_date) /\ StartParsed.ok /\ EndParsed.ok
    /\ EndParsed.year * 12 + EndParsed.month
         < StartParsed.year * 12 + StartParsed.month

\* C9: for every start/end pair _calculate_duration returns an integer
\* number of months >= 0 and never raises; it returns 0 when the end
\* precedes the start or when parsing fails.
C9_DurationNonNegative ==
    duration_out.called =>
        /\ ~duration_out.raised
        /\ duration_out.value \in Nat
        /\ ParsingFails => duration_out.value = 0
        /\ EndPrecedesStart => duration_out.value = 0
        /\ ~TruthyDate(start_date) => duration_out.value = 0

\* C9 witness: a call with both dates parsed and the end before the start
C9_Witness == duration_out.called /\ EndPrecedesStart /\ TruthyDate(end_date)

----------------------------------------------------------------------------
(* ExperienceParser.extract (experience_parser.py)                          *)
(* A section is a sequence of lines, a line a sequence of words; a job      *)
(* block is the sequence of its lines (the code joins them with '\n').      *)

\* len(word)
WordLen(w) ==
    CASE w \in {"-", ","} -> 1
      [] w = "at" -> 2
      [] w \in {"Mar", "Dec", "Jun"} -> 3
      [] w \in {"Acme", "APIs", "2015", "2018", "2019", "2020", "2021"} -> 4
      [] w = "Built" -> 5
      [] w \in {"January", "Present", "Current", "Initech"} -> 7
      [] w \in {"Software", "Engineer"} -> 8
      [] w = "Developer" -> 9
      [] OTHER -> 6

\* len(line) of a stripped line: the words and one space between two
LineLen(line) ==
    IF Len(line) = 0 THEN 0
    ELSE SeqSum([i \in 1..Len(line) |-> WordLen(line[i])]) + (Len(line) - 1)

\* self.months for the month words of the vocabulary; 0 for any other word
MonthNum(w) ==
    CASE w = "January" -> 1
      [] w = "Mar" -> 3
      [] w = "Jun" -> 6
      [] w = "Dec" -> 12
      [] OTHER -> 0
IsMonthWord(w) == MonthNum(w) # 0

\* f"{month_num:02d}"
MonthStr(n) ==
    CASE n = 1 -> "01" [] n = 2 -> "02" [] n = 3 -> "03" [] n = 4 -> "04"
      [] n = 5 -> "05" [] n = 6 -> "06" [] n = 7 -> "07" [] n = 8 -> "08"
      [] n = 9 -> "09" [] n = 10 -> "10" [] n = 11 -> "11" [] OTHER -> "12"

\* Words r'\d{4}' matches
IsYearWord(w) == w \in {"2015", "2018", "2019", "2020", "2021"}

\* Words that contain one of self.title_keywords, case-insensitively
title_keywords ==
    {"engineer", "developer", "analyst", "manager", "scientist", "architect",
     "consultant", "specialist", "lead", "director", "coordinator", "designer",
     "administrator", "technician", "associate", "intern", "fellow"}
LowerWord(w) ==
    CASE w = "Engineer" -> "engineer"
      [] w = "Developer" -> "developer"
      [] w = "Present" -> "present"
      [] w = "Current" -> "current"
      [] OTHER -> Lower(w)
HasTitleKeyword(line) ==
    \E i \in 1..Len(line) : \E k \in title_keywords : IsSubstr(k, LowerWord(line[i]))

\* r'(?:Jan|...|December)\s+\d{4}' found in the line
HasMonthYear(line) ==
    \E i \in 1..Len(line) : i < Len(line) /\ IsMonthWord(line[i]) /\ IsYearWord(line[i + 1])

\* _split_jobs: blank lines are dropped; a line with a month and year closes
\* the block collected so far, if any, and starts the next one
RECURSIVE SplitFrom(_, _, _, _)
SplitFrom(lines, i, jobs, current_job) ==
    IF i > Len(lines)
    THEN IF Len(current_job) > 0 THEN Append(jobs, current_job) ELSE jobs
    ELSE IF Len(lines[i]) = 0 THEN SplitFrom(lines, i + 1, jobs, current_job)
    ELSE IF HasMonthYear(lines[i]) /\ Len(current_job) > 0
         THEN SplitFrom(lines, i + 1, Append(jobs, current_job), <<lines[i]>>)
         ELSE SplitFrom(lines, i + 1, jobs, Append(current_job, lines[i]))

\* Mutant of split_jobs: a line with a month and year ends the block it is
\* in instead of starting the next one
RECURSIVE SplitDateLast(_, _, _, _)
SplitDateLast(lines, i, jobs, current_job) ==
    IF i > Len(lines)
    THEN IF Len(current_job) > 0 THEN Append(jobs, current_job) ELSE jobs
    ELSE IF Len(lines[i]) = 0 THEN SplitDateLast(lines, i + 1, jobs, current_job)
    ELSE IF HasMonthYear(lines[i]) /\ Len(current_job) > 0
         THEN SplitDateLast(lines, i + 1,
                            Append(jobs, Append(current_job, lines[i])), <<>>)
         ELSE SplitDateLast(lines, i + 1, jobs, Append(current_job, lines[i]))
split_jobs_date_last(section) == SplitDateLast(section, 1, <<>>, <<>>)

split_jobs(section) == SplitFrom(section, 1, <<>>, <<>>)

MinOf(S) == CHOOSE x \in S : \A y \in S : x <= y

\* _extract_role: the first of the first three lines with a title keyword,
\* else the first line longer than 3 characters, else None (<<>>)
extract_role(job) ==
    LET titled == {i \in 1..Len(job) : i <= 3 /\ HasTitleKeyword(job[i])}
        long == {i \in 1..Len(job) : LineLen(job[i]) > 3}
    IN  IF titled # {} THEN job[MinOf(titled)]
        ELSE IF long # {} THEN job[MinOf(long)]
        ELSE <<>>

\* The job text as one stream of words with "\n" between two lines
RECURSIVE JoinLines(_)
JoinLines(job) ==
    IF Len(job) = 0 THEN <<>>
    ELSE IF Len(job) = 1 THEN job[1]
    ELSE job[1] \o <<"\n">> \o JoinLines(Tail(job))

\* The same text with every white space alike
Words(job) == Concat(job)

\* Words made of [A-Za-z&,.] only, and those starting with [A-Z]
IsNameWord(w) ==
    /\ w \notin {"-", "\n", ",", "@", "company:", "organization:"}
    /\ ~IsYearWord(w) /\ w \notin NumberWords
IsCapitalised(w) ==
    w \in {"Software", "Engineer", "Acme", "January", "Present", "Built",
           "APIs", "Mar", "Dec", "Jun", "Current", "Developer", "Initech"}

\* r'(?:at|@)\s+([A-Z][A-Za-z\s&,.]+?)(?:\n|,|\s+-|\s+\d{4})' tried with the
\* name starting at word j: the lazy group grows word by word until a
\* terminator follows; the end of the text is no terminator.
\* Returns the index of the terminator, 0 when there is no match.
RECURSIVE NameEnd(_, _)
NameEnd(t, k) ==
    IF k > Len(t) THEN 0
    ELSE IF t[k] = "\n" \/ t[k] = "," \/ t[k] = "-" \/ IsYearWord(t[k]) THEN k
    ELSE IF IsNameWord(t[k]) THEN NameEnd(t, k + 1)
    ELSE 0

CompanyAt(t, i) ==
    LET j == IF i + 1 <= Len(t) /\ t[i + 1] = "\n" THEN i + 2 ELSE i + 1
    IN  IF /\ t[i] \in {"at", "@"}
           /\ j <= Len(t)
           /\ IsCapitalised(t[j]) /\ IsNameWord(t[j])
           /\ NameEnd(t, j + 1) # 0
        THEN SubSeq(t, j, NameEnd(t, j + 1) - 1)
        ELSE <<>>

\* r'(?:company|organization):\s*([A-Za-z\s&,.]+)': the greedy run of name
\* words, commas and white space after the label
RECURSIVE LabelRunEnd(_, _)
LabelRunEnd(t, k) ==
    IF k > Len(t) THEN k - 1
    ELSE IF IsNameWord(t[k]) \/ t[k] = "," \/ t[k] = "\n" THEN LabelRunEnd(t, k + 1)
    ELSE k - 1
StripCommaAndNewlines(s) == SelectSeq(s, LAMBDA w : w # "\n" /\ w # ",")
CompanyAfterLabel(t, i) ==
    IF t[i] \in {"company:", "organization:"}
    THEN StripCommaAndNewlines(SubSeq(t, i + 1, LabelRunEnd(t, i + 1)))
    ELSE <<>>

\* _extract_company: the leftmost match of the first pattern that matches
extract_company(job) ==
    LET t == JoinLines(job)
        hits1 == {i \in 1..Len(t) : CompanyAt(t, i) # <<>>}
        hits2 == {i \in 1..Len(t) : CompanyAfterLabel(t, i) # <<>>}
    IN  IF hits1 # {} THEN CompanyAt(t, MinOf(hits1))
        ELSE IF hits2 # {} THEN CompanyAfterLabel(t, MinOf(hits2))
        ELSE <<>>

\* _normalize_date of "Month YYYY": "YYYY-MM"
normalize_date(month_word, year_word) ==
    Str(<<year_word, MonthStr(MonthNum(month_word))>>)

IsRangeSeparator(w) == w \in {"-", "to"}

\* The month+year range pattern at word i of the text
MonthRangeAt(w, i) ==
    /\ i + 3 <= Len(w)
    /\ IsMonthWord(w[i]) /\ IsYearWord(w[i + 1]) /\ IsRangeSeparator(w[i + 2])
    /\ \/ w[i + 3] \in {"Present", "Current"}
       \/ /\ i + 4 <= Len(w)
          /\ IsMonthWord(w[i + 3]) /\ IsYearWord(w[i + 4])

\* The bare-year range pattern at word i of the text
YearRangeAt(w, i) ==
    /\ i + 2 <= Len(w)
    /\ IsYearWord(w[i]) /\ IsRangeSeparator(w[i + 1])
    /\ (w[i + 2] \in {"Present", "Current"} \/ IsYearWord(w[i + 2]))

\* _extract_dates: (start, end); the end is None only when the matched end
\* contains "present"
extract_dates(job) ==
    LET w == Words(job)
        m == {i \in 1..Len(w) : MonthRangeAt(w, i)}
        y == {i \in 1..Len(w) : YearRangeAt(w, i)}
    IN  IF m # {}
        THEN LET i == MinOf(m)
             IN  <<normalize_date(w[i], w[i + 1]),
                   IF w[i + 3] = "Present" THEN NoneDate
                   ELSE IF w[i + 3] = "Current" THEN Str(<<"Current">>)
                   ELSE normalize_date(w[i + 3], w[i + 4])>>
        ELSE IF y # {}
        THEN LET i == MinOf(y)
             IN  <<Str(<<w[i]>>),
                   IF w[i + 2] = "Present" THEN NoneDate ELSE Str(<<w[i + 2]>>)>>
        ELSE <<NoneDate, NoneDate>>

\* _extract_description: the lines after the second that are longer than 10
\* characters, joined
extract_description(job) ==
    Concat(SelectSeq(SubSeq(job, 3, Len(job)), LAMBDA l : LineLen(l) > 10))

\* round(x, 1) as a rational
Round1(x) ==
    LET n == x[1] * 10
        d == x[2]
        q == n \div d
        r == n - q * d
    IN  Norm(<<IF 2 * r > d THEN q + 1
               ELSE IF 2 * r < d THEN q
               ELSE IF q % 2 = 0 THEN q ELSE q + 1, 10>>)

\* 'present' in str(end_date).lower()
ContainsPresent(d) ==
    ~d.is_none /\ \E i \in 1..Len(d.parts) : IsSubstr("present", LowerWord(d.parts[i]))

\* _parse_job: the entry, or None (found = FALSE) for a block with neither
\* role nor company
parse_job(job, clock) ==
    LET role == extract_role(job)
        company == extract_company(job)
        dates == extract_dates(job)
        duration_months == calculate_duration(dates[1], dates[2], clock).value
    IN  IF ~Truthy(role) /\ ~Truthy(company)
        THEN [found |-> FALSE, entry |-> EmptyDict]
        ELSE [found |-> TRUE,
              entry |-> [role |-> role,
                         company |-> IF Truthy(company) THEN company
                                     ELSE <<"Not", "specified">>,
                         start_date |-> dates[1],
                         end_date |-> IF TruthyDate(dates[2]) THEN dates[2]
                                      ELSE Str(<<"Present">>),
                         duration_months |-> duration_months,
                         duration_years |-> Round1(Rat(duration_months, 12)),
                         description |-> extract_description(job),
                         is_current |-> dates[2].is_none \/ ContainsPresent(dates[2])]]

\* extract, from the experience section on: every block that parses to an
\* entry, in order
ExtractEntries(section, clock) ==
    LET jobs == split_jobs(section)
        parsed == [i \in 1..Len(jobs) |-> parse_job(jobs[i], clock)]
        kept == SelectSeq(parsed, LAMBDA p : p.found)
    IN  [i \in 1..Len(kept) |-> kept[i].entry]

extract ==
    /\ extract_outcome = "idle"
    /\ experiences' = ExtractEntries(section_text, now)
    /\ extract_outcome' = "returned"
    /\ UNCHANGED <<section_text, start_date, end_date, now, duration_out>>
    /\ UNCHANGED <<scorerVars, rankerVars, batchVars, gradeVars>>
    /\ UNCHANGED <<skillsVars, parserVars, summaryVars, compositeVars>>
    /\ UNCHANGED <<formatVars, contactVars, educationVars, feedbackVars>>

----------------------------------------------------------------------------
(* Specification of the experience parser: one extract call on any section  *)

MaxSectionLines == 4

RoleAtCompanyLine == <<"Software", "Engineer", "at", "Acme">>
MonthPresentLine == <<"January", "2020", "-", "Present">>
DescriptionLine == <<"Built", "APIs">>
SectionLines ==
    { RoleAtCompanyLine, MonthPresentLine, DescriptionLine,
      <<"Mar", "2018", "-", "Dec", "2019">>,
      <<"2015", "-", "Current">>,
      <<"Developer", "at", "Initech", ",", "Jun", "2021", "-", "Current">>,
      <<>> }

\* The section as _extract_experience_section returns it: stripped, so that
\* neither its first nor its last line is blank
Sections ==
    { s \in UNION { [1..n -> SectionLines] : n \in 1..MaxSectionLines } :
        Len(s[1]) > 0 /\ Len(s[Len(s)]) > 0 }

InitExtract ==
    /\ section_text \in Sections
    /\ experiences = <<>>
    /\ extract_outcome = "idle"
    /\ start_date = NoneDate /\ end_date = NoneDate
    /\ now = <<2026, 11>>
    /\ duration_out = [called |-> FALSE, raised |-> FALSE, value |-> 0]
    /\ ScorerIdle /\ RankerIdle /\ BatchIdle /\ GradeIdle
    /\ SkillsIdle /\ ParserIdle /\ SummaryIdle /\ CompositeIdle
    /\ FormatIdle /\ ContactIdle /\ EducationIdle /\ FeedbackIdle

NextExtract == extract

SpecExtract == InitExtract /\ [][NextExtract]_vars

\* A 'Role at Company' line, then a 'Month YYYY - Present' line, then one or
\* more description lines
IsRoleThenDateThenDescription(s) ==
    /\ Len(s) >= 3
    /\ s[1] = RoleAtCompanyLine
    /\ s[2] = MonthPresentLine
    /\ \A i \in 3..Len(s) : s[i] = DescriptionLine

\* C10: a section made of a 'Role at Company' line, a 'Month YYYY - Present'
\* line and description lines is extracted as exactly one entry, whose
\* company contains the company name and whose is_current is true.
C10_RoleDateDescriptionIsOneEntry ==
    (extract_outcome = "returned" /\ IsRoleThenDateThenDescription(section_text))
        => /\ Len(experiences) = 1
           /\ "Acme" \in Range(experiences[1].company)
           /\ experiences[1].is_current

----------------------------------------------------------------------------
(* Claims about the parsed dates of a job block                             *)

OpenEndWords == {"Present", "Current"}

\* The date range _extract_dates matches in the block ends in the word
\* 'Present' or 'Current'
RangeEndsOpen(job) ==
    LET w == Words(job)
        m == {i \in 1..Len(w) : MonthRangeAt(w, i)}
        y == {i \in 1..Len(w) : YearRangeAt(w, i)}
    IN  IF m # {} THEN w[MinOf(m) + 3] \in OpenEndWords
        ELSE IF y # {} THEN w[MinOf(y) + 2] \in OpenEndWords
        ELSE FALSE

\* Every block of the section became an entry, so that entry i is block i
EntryPerBlock == Len(experiences) = Len(split_jobs(section_text))

\* C11: for every parsed job block, a date range whose end is the word
\* 'Present' or 'Current' yields a null parsed end date, and the entry's
\* is_current flag is true exactly when the parsed end date is null.
C11_OpenEndIsNullAndCurrent ==
    (extract_outcome = "returned" /\ EntryPerBlock) =>
        LET jobs == split_jobs(section_text)
        IN  \A i \in 1..Len(jobs) :
              LET parsed_end == extract_dates(jobs[i])[2]
              IN  /\ RangeEndsOpen(jobs[i]) => parsed_end.is_none
                  /\ experiences[i].is_current <=> parsed_end.is_none

----------------------------------------------------------------------------
(* SkillsExtractor.extract (extractors/skills_extractor.py)                 *)
(* The text is a sequence of tokens: words as typed, "," and "\n". Two      *)
(* tokens are one space apart, except that nothing precedes a "," and a     *)
(* "\n" has no space on either side.                                        *)

\* self.technical_skills
technical_skills ==
    { "a/b testing", "agile", "angular", "ansible", "asp.net", "aws",
      "azure", "bash", "bert", "bootstrap", "c#", "c++", "cassandra",
      "ci/cd", "computer vision", "confluence", "css",
      "data analysis", "data visualization", "deep learning",
      "devops", "django", "docker", "dynamodb", "elasticsearch",
      "express", "fastapi", "flask", "gcp", "git", "github actions",
      "gitlab", "go", "gpt", "graphql", "hadoop", "html",
      "hypothesis testing", "java", "javascript", "jenkins", "jira",
      "jquery", "kafka", "keras", "kotlin", "kubernetes", "lightgbm",
      "linux", "llm", "machine learning", "matlab", "matplotlib",
      "microservices", "mongodb", "mysql", "neo4j", "neural networks",
      "nlp", "nodejs", "numpy", "oracle", "pandas", "perl", "php",
      "plotly", "postgresql", "postman", "power bi", "python",
      "pytorch", "r", "rabbitmq", "react", "redis",
      "reinforcement learning", "rest api", "ruby", "rust", "scala",
      "scikit-learn", "scrum", "seaborn", "shell", "spark", "spring",
      "sql", "sqlite", "statistical analysis", "swagger", "swift",
      "tableau", "tailwind", "tensorflow", "terraform",
      "transformers", "typescript", "unix", "vue", "xgboost" }

\* self.soft_skills
soft_skills ==
    { "adaptability", "analytical", "collaboration", "communication",
      "creativity", "critical thinking", "leadership", "negotiation",
      "presentation", "problem solving", "project management",
      "teamwork", "time management" }

\* self.skill_aliases: the aliases, and the skill each stands for
alias_names == {"js", "ts", "k8s", "ml", "dl", "cv", "tf", "sklearn", "np", "pd"}
alias_itself(alias) == alias
skill_aliases(alias) ==
    CASE alias = "js" -> "javascript"
      [] alias = "ts" -> "typescript"
      [] alias = "k8s" -> "kubernetes"
      [] alias = "ml" -> "machine learning"
      [] alias = "dl" -> "deep learning"
      [] alias = "cv" -> "computer vision"
      [] alias = "tf" -> "tensorflow"
      [] alias = "sklearn" -> "scikit-learn"
      [] alias = "np" -> "numpy"
      [] alias = "pd" -> "pandas"
      [] OTHER -> alias

\* The skills and aliases in the order sorted() puts Python strings in
LexOrder ==
    << "a/b testing", "adaptability", "agile", "analytical",
       "angular", "ansible", "asp.net", "aws", "azure", "bash",
       "bert", "bootstrap", "c#", "c++", "cassandra", "ci/cd",
       "collaboration", "communication", "computer vision",
       "confluence", "creativity", "critical thinking", "css", "cv",
       "data analysis", "data visualization", "deep learning",
       "devops", "django", "dl", "docker", "dynamodb",
       "elasticsearch", "express", "fastapi", "flask", "gcp", "git",
       "github actions", "gitlab", "go", "gpt", "graphql", "hadoop",
       "html", "hypothesis testing", "java", "javascript", "jenkins",
       "jira", "jquery", "js", "k8s", "kafka", "keras", "kotlin",
       "kubernetes", "leadership", "lightgbm", "linux", "llm",
       "machine learning", "matlab", "matplotlib", "microservices",
       "ml", "mongodb", "mysql", "negotiation", "neo4j",
       "neural networks", "nlp", "nodejs", "np", "numpy", "oracle",
       "pandas", "pd", "perl", "php", "plotly", "postgresql",
       "postman", "power bi", "presentation", "problem solving",
       "project management", "python", "pytorch", "r", "rabbitmq",
       "react", "redis", "reinforcement learning", "rest api", "ruby",
       "rust", "scala", "scikit-learn", "scrum", "seaborn", "shell",
       "sklearn", "spark", "spring", "sql", "sqlite",
       "statistical analysis", "swagger", "swift", "tableau",
       "tailwind", "teamwork", "tensorflow", "terraform", "tf",
       "time management", "transformers", "ts", "typescript", "unix",
       "vue", "xgboost" >>

\* skill.split(' ') for the skills of more than one word
PhraseWords(skill) ==
    CASE skill = "a/b testing" -> << "a/b", "testing" >>
      [] skill = "computer vision" -> << "computer", "vision" >>
      [] skill = "critical thinking" -> << "critical", "thinking" >>
      [] skill = "data analysis" -> << "data", "analysis" >>
      [] skill = "data visualization" -> << "data", "visualization" >>
      [] skill = "deep learning" -> << "deep", "learning" >>
      [] skill = "github actions" -> << "github", "actions" >>
      [] skill = "hypothesis testing" -> << "hypothesis", "testing" >>
      [] skill = "machine learning" -> << "machine", "learning" >>
      [] skill = "neural networks" -> << "neural", "networks" >>
      [] skill = "power bi" -> << "power", "bi" >>
      [] skill = "problem solving" -> << "problem", "solving" >>
      [] skill = "project management" -> << "project", "management" >>
      [] skill = "reinforcement learning" -> << "reinforcement", "learning" >>
      [] skill = "rest api" -> << "rest", "api" >>
      [] skill = "statistical analysis" -> << "statistical", "analysis" >>
      [] skill = "time management" -> << "time", "management" >>
      [] OTHER -> <<skill>>

\* token.lower()
TokenLower(t) ==
    CASE t = "Python" -> "python"
      [] t = "C++" -> "c++"
      [] t = "C++11" -> "c++11"
      [] t = "Machine" -> "machine"
      [] t = "Learning" -> "learning"
      [] t = "Leadership" -> "leadership"
      [] t = "Skills:" -> "skills:"
      [] OTHER -> t

\* The maximal runs of word characters [a-z0-9_] of the lower-cased token:
\* between two of them, and at either end of one, r'\b' matches
WordRuns(t) ==
    CASE t = "Python" -> {"python"}
      [] t = "C++" -> {"c"}
      [] t = "C++11" -> {"c", "11"}
      [] t = "k8s" -> {"k8s"}
      [] t = "Machine" -> {"machine"}
      [] t = "Learning" -> {"learning"}
      [] t = "Leadership" -> {"leadership"}
      [] t = "Skills:" -> {"skills"}
      [] OTHER -> {}

\* The terms whose last character is no word character: the closing r'\b'
\* then needs a word character right after the term
EndsInNonWordChar(term) == term \in {"c++", "c#"}
TermThenWordChar(term, t) == term = "c++" /\ t = "C++11"

IsDelimiter(t) == t \in {",", "\n"}

\* The terms of more than one word
Phrases == {term \in technical_skills \cup soft_skills : Len(PhraseWords(term)) > 1}

\* re.search(r'\b' + re.escape(term) + r'\b', text_lower)
RegexFinds(term, text) ==
    IF EndsInNonWordChar(term)
    THEN \E k \in 1..Len(text) : TermThenWordChar(term, text[k])
    ELSE IF term \notin Phrases
    THEN \E k \in 1..Len(text) :
            term \in WordRuns(text[k]) \/ term = TokenLower(text[k])
    ELSE LET w == PhraseWords(term)
         IN  \E k \in 1..Len(text) :
                /\ k + Len(w) - 1 <= Len(text)
                /\ \A j \in 1..Len(w) : TokenLower(text[k + j - 1]) = w[j]

\* Tokens 'skills?[:\s]+' matches in, and tokens '[A-Z][a-z]+:' matches
SectionHeaders == {"Skills:"}
HeaderLike == {"Skills:"}

\* _extract_skills_section: from the first header that text follows, past
\* the white space after it, up to a blank line, a "\nWord:" line or the end
extract_skills_section(text) ==
    LET headers == {h \in 1..Len(text) : text[h] \in SectionHeaders /\ h < Len(text)}
    IN  IF headers = {} THEN <<>>
        ELSE
          LET h == MinOf(headers)
              starts == {a \in (h + 1)..Len(text) : text[a] # "\n"}
          IN  IF starts = {} THEN <<>>
              ELSE
                LET a == MinOf(starts)
                    ends == {e \in (a + 1)..Len(text) :
                               /\ text[e] = "\n"
                               /\ e < Len(text)
                               /\ (text[e + 1] = "\n" \/ text[e + 1] \in HeaderLike)}
                    e == IF ends = {} THEN Len(text) + 1 ELSE MinOf(ends)
                IN  SubSeq(text, a, e - 1)

\* re.split(r'[,;|\n...]', section_text): the non-empty items
Items(section) ==
    { SubSeq(section, i, j) : <<i, j>> \in
        { p \in (1..Len(section)) \X (1..Len(section)) :
            /\ p[1] <= p[2]
            /\ \A k \in p[1]..p[2] : ~IsDelimiter(section[k])
            /\ (p[1] = 1 \/ IsDelimiter(section[p[1] - 1]))
            /\ (p[2] = Len(section) \/ IsDelimiter(section[p[2] + 1])) } }

\* item.strip().lower() as words
ItemLower(item) == [j \in 1..Len(item) |-> TokenLower(item[j])]

\* "skill in item" for a skill of several words
ItemContains(skill, item) ==
    LET w == PhraseWords(skill)
    IN  \E k \in 1..Len(item) :
           /\ k + Len(w) - 1 <= Len(item)
           /\ \A j \in 1..Len(w) : TokenLower(item[k + j - 1]) = w[j]

\* _parse_skills_section: the items that are technical skills, and the
\* technical skills of several words an item contains
parse_skills_section(section) ==
    LET items == Items(section)
    IN  IF items = {} THEN {}
        ELSE { skill \in technical_skills :
                 \E item \in items :
                    \/ ItemLower(item) = PhraseWords(skill)
                    \/ (skill \in Phrases /\ ItemContains(skill, item)) }

\* found_technical and found_soft when extract builds its result
found_technical(text) ==
    {skill \in technical_skills : RegexFinds(skill, text)}
        \cup {skill_aliases(alias) : alias \in {a \in alias_names : RegexFinds(a, text)}}
        \cup parse_skills_section(extract_skills_section(text))
found_soft(text) == {skill \in soft_skills : RegexFinds(skill, text)}

\* sorted(list(found))
reverse_sorted_list(found) ==
    LET up == SelectSeq(LexOrder, LAMBDA s : s \in found)
    IN  [i \in 1..Len(up) |-> up[Len(up) + 1 - i]]
sorted_list(found) == SelectSeq(LexOrder, LAMBDA s : s \in found)

\* The result dict (skills_extractor.py:110-114)
BuildSkillsResult(technical, soft) ==
    [technical_skills |-> sorted_list(technical),
     soft_skills |-> sorted_list(soft),
     total_count |-> Cardinality(technical) + Cardinality(soft)]

SkillsResult(text) ==
    LET technical == found_technical(text)
        soft == found_soft(text)
    IN  BuildSkillsResult(technical, soft)

extract_skills ==
    /\ skills_outcome = "idle"
    /\ skills_result' = SkillsResult(skills_text)
    /\ skills_outcome' = "returned"
    /\ UNCHANGED skills_text
    /\ UNCHANGED <<scorerVars, rankerVars, batchVars, gradeVars, durationVars,
                   extractVars, parserVars, summaryVars,
                   compositeVars>>
    /\ UNCHANGED <<formatVars, contactVars, educationVars, feedbackVars>>

----------------------------------------------------------------------------
(* Specification of the skills extractor: one extract call on any text      *)

MaxSkillTokens == 4

SkillTokens ==
    {"Python", "C++", "C++11", "k8s", "Machine", "Learning", "Leadership",
     "Skills:", ",", "\n"}
SkillTexts == UNION {[1..n -> SkillTokens] : n \in 0..MaxSkillTokens}

InitSkills ==
    /\ skills_text \in SkillTexts
    /\ skills_result = [technical_skills |-> <<>>, soft_skills |-> <<>>,
                        total_count |-> 0]
    /\ skills_outcome = "idle"
    /\ ScorerIdle /\ RankerIdle /\ BatchIdle /\ GradeIdle /\ DurationIdle
    /\ ExtractIdle /\ ParserIdle /\ SummaryIdle /\ CompositeIdle
    /\ FormatIdle /\ ContactIdle /\ EducationIdle /\ FeedbackIdle

NextSkills == extract_skills

SpecSkills == InitSkills /\ [][NextSkills]_vars

----------------------------------------------------------------------------
(* Claims about the skills extractor                                        *)

SkillsDone == skills_outcome = "returned"

\* The term stands in the text as tokens of its own, in any letter case
OccursIsolated(term, text) ==
    LET w == PhraseWords(term)
    IN  \E k \in 1..Len(text) :
           /\ k + Len(w) - 1 <= Len(text)
           /\ \A j \in 1..Len(w) : TokenLower(text[k + j - 1]) = w[j]

\* C12: every canonical term of the technical or soft vocabulary that occurs
\* in the text as an isolated word or phrase, in any letter case, is in
\* technical_skills or soft_skills respectively; this includes the terms that
\* end in a non-word character, 'c++' and 'c#'.
C12_IsolatedTermIsExtracted ==
    SkillsDone =>
        /\ \A term \in technical_skills :
              OccursIsolated(term, skills_text)
                  => term \in Range(skills_result.technical_skills)
        /\ \A term \in soft_skills :
              OccursIsolated(term, skills_text)
                  => term \in Range(skills_result.soft_skills)

\* C13: every element of technical_skills is a member of the technical
\* vocabulary and every element of soft_skills a member of the soft
\* vocabulary, for any text; an alias surface form is never output, only the
\* skill it stands for.
C13_ClosedVocabulary ==
    SkillsDone =>
        /\ Range(skills_result.technical_skills) \subseteq technical_skills
        /\ Range(skills_result.soft_skills) \subseteq soft_skills
        /\ Range(skills_result.technical_skills) \cap alias_names = {}
        /\ \A alias \in alias_names :
              RegexFinds(alias, skills_text)
                  => skill_aliases(alias) \in Range(skills_result.technical_skills)

\* C13 witness: a text with the alias 'k8s' and a word outside the vocabulary
\* in its skills section, extracted as 'kubernetes' alone.
C13_Witness ==
    /\ SkillsDone
    /\ skills_text = <<"Skills:", "k8s", ",", "C++11">>
    /\ "kubernetes" \in Range(skills_result.technical_skills)

LexRank(term) == CHOOSE i \in 1..Len(LexOrder) : LexOrder[i] = term
IsSortedUnique(list) ==
    \A i, j \in 1..Len(list) : i < j => LexRank(list[i]) < LexRank(list[j])

\* C14: total_count = len(technical_skills) + len(soft_skills), and both
\* lists are free of duplicates and sorted lexicographically.
C14_CountAndSortedLists ==
    SkillsDone =>
        /\ skills_result.total_count
              = Len(skills_result.technical_skills) + Len(skills_result.soft_skills)
        /\ IsSortedUnique(skills_result.technical_skills)
        /\ IsSortedUnique(skills_result.soft_skills)

\* C14 witness: two technical skills, one of them found by the whole-text
\* pass and by the skills-section pass, and a soft skill.
C14_Witness ==
    /\ SkillsDone
    /\ Len(skills_result.technical_skills) >= 2
    /\ Len(skills_result.soft_skills) >= 1
    /\ \E term \in Range(skills_result.technical_skills) :
          /\ RegexFinds(term, skills_text)
          /\ term \in parse_skills_section(extract_skills_section(skills_text))

----------------------------------------------------------------------------
(* ResumeParser.parse (parsers/__init__.py)                                 *)
(* A path is its file name, whether it exists, and what the format parser   *)
(* makes of the file: its text, or an exception.                            *)

\* Path(file_path).suffix.lower()
SuffixLower(name) ==
    CASE name = "cv.pdf" -> ".pdf"
      [] name = "CV.PDF" -> ".pdf"
      [] name = "cv.docx" -> ".docx"
      [] name = "cv.Docx" -> ".docx"
      [] name = "cv.md" -> ".md"
      [] name = "cv.doc" -> ".doc"
      [] name = "cv.txt" -> ".txt"
      [] name = "cv.rtf" -> ".rtf"
      [] name = "cv.tar.gz" -> ".gz"
      [] OTHER -> ""

\* self.parsers: the extensions and the parser of each
parsers == {".pdf", ".docx", ".doc", ".txt"}
parser_of(extension) ==
    CASE extension = ".pdf" -> "PDFParser"
      [] extension = ".txt" -> "TXTParser"
      [] OTHER -> "DOCXParser"

NoResult == [k \in {} |-> 0]

\* parser.parse(str(file_path)): the dict of the format parser, or the
\* exception it raises on a file it cannot read
format_parse(path) ==
    IF path.content = "unreadable"
    THEN [outcome |-> "ParserError", result |-> NoResult]
    ELSE [outcome |-> "returned",
          result |-> [text |-> path.content, parser |-> parser_of(SuffixLower(path.name))]]

\* Mutant of parse: the extension is checked before the existence
parse_extension_first(path) ==
    IF SuffixLower(path.name) \notin parsers
    THEN [outcome |-> "ValueError", result |-> NoResult]
    ELSE IF ~path.exists
    THEN [outcome |-> "FileNotFoundError", result |-> NoResult]
    ELSE format_parse(path)

\* ResumeParser.parse as a value: the outcome and the returned dict
parse(path) ==
    IF ~path.exists
    THEN [outcome |-> "FileNotFoundError", result |-> NoResult]
    ELSE IF SuffixLower(path.name) \notin parsers
    THEN [outcome |-> "ValueError", result |-> NoResult]
    ELSE LET inner == format_parse(path)
         IN  IF inner.outcome # "returned" THEN inner
             ELSE [outcome |-> "returned",
                   result |-> [text |-> inner.result.text,
                               parser |-> inner.result.parser,
                               format |-> SuffixLower(path.name),
                               filename |-> path.name]]

call_parse ==
    /\ parse_outcome = "idle"
    /\ parse_outcome' = parse(file_path).outcome
    /\ parse_result' = parse(file_path).result
    /\ UNCHANGED file_path
    /\ UNCHANGED <<scorerVars, rankerVars, batchVars, gradeVars, durationVars,
                   extractVars, skillsVars, summaryVars,
                   compositeVars>>
    /\ UNCHANGED <<formatVars, contactVars, educationVars, feedbackVars>>

----------------------------------------------------------------------------
(* Specification of the parser: one parse call on any path                  *)

FileNames ==
    {"cv.pdf", "CV.PDF", "cv.docx", "cv.Docx", "cv.doc", "cv.txt", "cv.rtf",
     "cv.md", "cv.tar.gz", "cv", ".txt"}
FileContents ==
    {"unreadable", "", "Jane Doe", "Jane Doe\nSkills: Python",
     "Jane Doe\nExperience\nDeveloper at Initech"}

\* A path that does not exist has no content to read
Paths ==
    { p \in [name : FileNames, exists : BOOLEAN, content : FileContents] :
        ~p.exists => p.content = "unreadable" }

InitParser ==
    /\ file_path \in Paths
    /\ parse_result = NoResult
    /\ parse_outcome = "idle"
    /\ ScorerIdle /\ RankerIdle /\ BatchIdle /\ GradeIdle /\ DurationIdle
    /\ ExtractIdle /\ SkillsIdle /\ SummaryIdle /\ CompositeIdle
    /\ FormatIdle /\ ContactIdle /\ EducationIdle /\ FeedbackIdle

NextParser == call_parse

SpecParser == InitParser /\ [][NextParser]_vars

----------------------------------------------------------------------------
(* Claim about the parser                                                   *)

ParseDone == parse_outcome # "idle"

\* C15: parse returns a parsed document only when the path exists and its
\* extension is one of .pdf, .docx, .doc, .txt; it raises a file-not-found
\* error for a missing path and an unsupported-format error for an existing
\* path with any other extension, with no result in either case.
C15_ParseOnlyExistingSupported ==
    ParseDone =>
        /\ parse_outcome = "returned"
              => (file_path.exists /\ SuffixLower(file_path.name) \in parsers)
        /\ ~file_path.exists
              => (parse_outcome = "FileNotFoundError" /\ parse_result = NoResult)
        /\ (file_path.exists /\ SuffixLower(file_path.name) \notin parsers)
              => (parse_outcome = "ValueError" /\ parse_result = NoResult)

\* C15 witness: a missing path whose extension is not supported either.
C15_Witness ==
    /\ ParseDone
    /\ ~file_path.exists
    /\ file_path.name = "cv.rtf"
    /\ parse_outcome = "FileNotFoundError"

----------------------------------------------------------------------------
(* More claims about rank_resumes                                           *)

\* The candidate as the caller passed it: the dict without the fields the
\* ranker sets
InputKeys == {"file_name", "extracted_data", "ats_score"}
AsPassed(c) == [k \in DOMAIN c \cap InputKeys |-> c[k]]

\* C16: the returned list is a permutation of the input candidates (none
\* dropped, none duplicated), each annotated with composite_score and rank,
\* and the candidate at position i (0-based) has rank i+1.
C16_RankedIsPermutationWithRanks ==
    rank_outcome = "returned" =>
        /\ Len(ranked) = Len(RankInput)
        /\ IsInjective([i \in 1..Len(ranked) |-> ranked[i].file_name])
        /\ {AsPassed(ranked[i]) : i \in 1..Len(ranked)}
              = {AsPassed(RankInput[i]) : i \in 1..Len(RankInput)}
        /\ \A i \in 1..Len(ranked) :
              /\ {"composite_score", "rank"} \subseteq DOMAIN ranked[i]
              /\ ranked[i].rank = i

\* C16 witness: three candidates returned in another order than they came in
C16_Witness ==
    /\ rank_outcome = "returned"
    /\ rank_calls = 1
    /\ Len(ranked) = 3
    /\ ranked[1].file_name # resumes_data[1].file_name
    /\ ranked[3].rank = 3

----------------------------------------------------------------------------
(* ResumeExtractor.extract_all (extractors/__init__.py): the experience     *)
(* entries and the summary figure computed from them.  The other keys of    *)
(* the record come from the other extractors and do not enter that figure.  *)

\* sum(exp.get('duration_years', 0) for exp in result['experience'])
summary_total_experience_years(entries) ==
    RSum([i \in 1..Len(entries) |-> Get(entries[i], "duration_years", RInt(0))])

extract_all ==
    /\ extract_outcome = "idle"
    /\ experiences' = ExtractEntries(section_text, now)
    /\ summary' = [total_experience_years |->
                      summary_total_experience_years(experiences')]
    /\ extract_outcome' = "returned"
    /\ UNCHANGED <<section_text, start_date, end_date, now, duration_out>>
    /\ UNCHANGED <<scorerVars, rankerVars, batchVars, gradeVars, skillsVars,
                   parserVars, compositeVars>>
    /\ UNCHANGED <<formatVars, contactVars, educationVars, feedbackVars>>

InitExtractAll ==
    /\ section_text \in Sections
    /\ experiences = <<>>
    /\ extract_outcome = "idle"
    /\ summary = [k \in {} |-> 0]
    /\ start_date = NoneDate /\ end_date = NoneDate
    /\ now = <<2026, 11>>
    /\ duration_out = [called |-> FALSE, raised |-> FALSE, value |-> 0]
    /\ ScorerIdle /\ RankerIdle /\ BatchIdle /\ GradeIdle
    /\ SkillsIdle /\ ParserIdle /\ CompositeIdle
    /\ FormatIdle /\ ContactIdle /\ EducationIdle /\ FeedbackIdle

NextExtractAll == extract_all

SpecExtractAll == InitExtractAll /\ [][NextExtractAll]_vars

\* C17: the summary's total_experience_years equals the sum of
\* duration_months over all extracted experience entries, divided by 12.
C17_TotalYearsIsMonthsOverTwelve ==
    extract_outcome = "returned" =>
        REq(summary.total_experience_years,
            Rat(SeqSum([i \in 1..Len(experiences) |-> experiences[i].duration_months]),
                12))

----------------------------------------------------------------------------
(* Claims about the sub-scores                                              *)

\* C18: for an empty job description the sub-score computations fall back to
\* their defaults for every record, the empty record included: the keyword
\* score is 50, the skills score is 70 and the required-years figure is 0.
C18_EmptyJDGivesDefaults ==
    (ScoreDone /\ jd_text = <<>>) =>
        /\ REq(sub_scores.keyword_score, RInt(50))
        /\ REq(sub_scores.skills_score, RInt(70))
        /\ extract_required_experience(jd_text) = 0

\* C19: the experience score is 30 whenever the record has no experience
\* entries, whatever the JD says; otherwise, with R the required years taken
\* from the JD (first matching pattern, 0 if none) and Y the record's total
\* experience years: for R = 0 it is min(100, 50 + 10*Y); for R > 0 it is 100
\* when Y >= R, 80 when Y >= 0.7*R, 60 when Y >= 0.5*R, and 40 otherwise.
C19_ExperienceScoreTiers ==
    ScoreDone =>
        LET entries == Get(resume_data, "experience", <<>>)
            R == extract_required_experience(jd_text)
            Y == Get(Get(resume_data, "summary", EmptyDict),
                     "total_experience_years", RInt(0))
            e == sub_scores.experience_score
        IN  IF entries = <<>> THEN REq(e, RInt(30))
            ELSE IF R = 0
                 THEN IF RGe(RAdd(RInt(50), RMul(RInt(10), Y)), RInt(100))
                      THEN REq(e, RInt(100))
                      ELSE REq(e, RAdd(RInt(50), RMul(RInt(10), Y)))
            ELSE IF RGe(Y, RInt(R)) THEN REq(e, RInt(100))
            ELSE IF RGe(Y, Rat(7 * R, 10)) THEN REq(e, RInt(80))
            ELSE IF RGe(Y, Rat(5 * R, 10)) THEN REq(e, RInt(60))
            ELSE REq(e, RInt(40))

\* 3.5 years against "3-5 years experience": the first pattern finds
\* "5 years experience", so R = 5 and Y = 0.7*R exactly
C19_Witness ==
    /\ ScoreDone
    /\ jd_text = <<"3-5", "years", "experience">>
    /\ resume_data = WithYears(Rat(35, 10))
    /\ extract_required_experience(jd_text) = 5
    /\ REq(sub_scores.experience_score, RInt(80))

----------------------------------------------------------------------------
(* ResumeRanker._calculate_composite_score (ranker.py) as a function of one *)
(* candidate dict                                                           *)

call_calculate_composite_score ==
    /\ ~composite_out.called
    /\ composite_out' = [called |-> TRUE,
                         value |-> calculate_composite_score(candidate)]
    /\ UNCHANGED candidate
    /\ UNCHANGED <<scorerVars, rankerVars, batchVars, gradeVars, durationVars,
                   extractVars, skillsVars, parserVars, summaryVars>>
    /\ UNCHANGED <<formatVars, contactVars, educationVars, feedbackVars>>

MaxProjects == 5

\* Skill counts below, at and above the cap of 20
SkillCounts == {0, 7, 20, 23}

\* The duration_years of the experience entries: none, below, at and above
\* the cap of 5 years
YearLists ==
    { <<>>, <<Rat(25, 10)>>, <<Rat(5, 1)>>, <<Rat(68, 10), Rat(5, 10)>> }

\* The levels of the table, the extractor's default, and one the table lacks
EducationLevels ==
    {"Phd", "Doctorate", "Master", "Mba", "Bachelor", "Associate", "Diploma",
     "Not specified", "High School"}

ExtractedData(n, years, level, p) ==
    [skills |-> [total_count |-> n],
     experience |-> [i \in 1..Len(years) |->
                        [role |-> <<"developer">>, company |-> <<"Acme">>,
                         duration_years |-> years[i]]],
     projects |-> [i \in 1..p |-> [description |-> <<"Built", "APIs">>]],
     summary |-> [total_experience_years |-> RSum(years),
                  education_level |-> level]]

ExtractedRecords ==
    {ExtractedData(n, years, level, p) :
        n \in SkillCounts, years \in YearLists, level \in EducationLevels,
        p \in 0..MaxProjects}

\* The dicts the function is called on: a bare record, a record wrapped as
\* analyze_resume wraps it, the empty dict, and candidates that carry an
\* ats_score
CompositeInputs ==
    ExtractedRecords
    \cup {[file_name |-> "e.pdf", extracted_data |-> e] : e \in ExtractedRecords}
    \cup {EmptyDict}
    \cup CandidatePool

InitComposite ==
    /\ candidate \in CompositeInputs
    /\ composite_out = [called |-> FALSE, value |-> 0]
    /\ ScorerIdle /\ RankerIdle /\ BatchIdle /\ GradeIdle /\ DurationIdle
    /\ ExtractIdle /\ SkillsIdle /\ ParserIdle /\ SummaryIdle
    /\ FormatIdle /\ ContactIdle /\ EducationIdle /\ FeedbackIdle

NextComposite == call_calculate_composite_score

SpecComposite == InitComposite /\ [][NextComposite]_vars

\* The education table of ranker.py:93-99
EducationTable ==
    [Phd |-> 100, Doctorate |-> 100, Master |-> 85, Mba |-> 85,
     Bachelor |-> 70, Associate |-> 50, Diploma |-> 40]

NoScorerResult == "ats_score" \notin DOMAIN candidate

\* C20: for a candidate that carries no scorer result the composite score is
\* 0.40*min(100, 5*totalSkillCount) + 0.30*min(100, 20*totalYears) +
\* 0.20*educationComponent + 0.10*min(100, 25*projectCount), where the
\* education component is the table's value for the education-level string
\* and 30 for a level the table lacks; the result lies in [0, 100]
\* (hundredths: 0..10000).
C20_CompositeWithoutScorerResult ==
    (composite_out.called /\ NoScorerResult) =>
        LET rec == Get(candidate, "extracted_data", candidate)
            n == Get(Get(rec, "skills", EmptyDict), "total_count", 0)
            entries == Get(rec, "experience", <<>>)
            Y == RSum([i \in 1..Len(entries) |-> entries[i].duration_years])
            level == Get(Get(rec, "summary", EmptyDict), "education_level",
                         "Not specified")
            edu == IF level \in DOMAIN EducationTable
                   THEN EducationTable[level] ELSE 30
            p == Len(Get(rec, "projects", <<>>))
            expected ==
                RAdd(RMul(Rat(40, 100), RMin(RInt(100), RInt(5 * n))),
                RAdd(RMul(Rat(30, 100), RMin(RInt(100), RMul(RInt(20), Y))),
                RAdd(RMul(Rat(20, 100), RInt(edu)),
                     RMul(Rat(10, 100), RMin(RInt(100), RInt(25 * p))))))
        IN  /\ REq(Rat(composite_out.value, 100), expected)
            /\ composite_out.value >= 0
            /\ composite_out.value <= 10000

\* C20 witness: 23 skills (capped), 2.5 years, a level the table lacks and
\* five projects (capped): 40 + 15 + 6 + 10 = 71
C20_Witness ==
    /\ composite_out.called
    /\ NoScorerResult
    /\ candidate = [file_name |-> "e.pdf",
                    extracted_data |->
                        ExtractedData(23, <<Rat(25, 10)>>, "High School", 5)]
    /\ composite_out.value = 7100

\* C26: the grade in the result of score_resume is the grade of the score the
\* result reports: grade = _get_grade applied to the final score rounded to 2
\* decimals.
C26_GradeIsGradeOfReportedScore ==
    ScoreDone => result.grade = get_grade(Rat(result.final_score, 100))

\* C27: rank_resumes applied to an empty candidate list returns an empty list
\* without raising (so that a batch in which every document was skipped can
\* go on to report writing).
C27_EmptyListRanksToEmpty ==
    (rank_calls >= 1 /\ resumes_data = <<>>) =>
        /\ rank_outcome = "returned"
        /\ ranked = <<>>

\* C30: _split_jobs partitions the section: the blocks, concatenated in
\* order, are exactly the non-empty lines of the section in their order; no
\* block is empty; every block other than the first begins with a line that
\* contains a month and year, and such a line is never at a later position of
\* a block.
C30_SplitJobsPartitionsSection ==
    extract_outcome = "returned" =>
        LET jobs == split_jobs(section_text)
        IN  /\ Concat(jobs) = SelectSeq(section_text, LAMBDA l : Len(l) > 0)
            /\ \A b \in 1..Len(jobs) :
                  /\ Len(jobs[b]) > 0
                  /\ b > 1 => HasMonthYear(jobs[b][1])
                  /\ \A k \in 2..Len(jobs[b]) : ~HasMonthYear(jobs[b][k])

\* C30 witness: a role line, a date line, a blank line and a description give
\* the block of the role and the block of the date line with the description
C30_Witness ==
    /\ extract_outcome = "returned"
    /\ section_text = <<RoleAtCompanyLine, MonthPresentLine, <<>>, DescriptionLine>>
    /\ split_jobs(section_text)
         = << <<RoleAtCompanyLine>>, <<MonthPresentLine, DescriptionLine>> >>

----------------------------------------------------------------------------
(* ResumeScorer._calculate_format_score (scorer.py) as a function of one    *)
(* record                                                                   *)

call_calculate_format_score ==
    /\ ~format_out.called
    /\ format_out' = [called |-> TRUE,
                      value |-> calculate_format_score(format_data)]
    /\ UNCHANGED format_data
    /\ UNCHANGED <<scorerVars, rankerVars, batchVars, gradeVars, durationVars,
                   extractVars, skillsVars, parserVars, summaryVars,
                   compositeVars, contactVars, educationVars, feedbackVars>>

\* A key of the record: absent, or present with a value
Absent == [absent |-> TRUE, value |-> <<>>]
Present(v) == [absent |-> FALSE, value |-> v]
WithKey(d, k, choice) == IF choice.absent THEN d ELSE SetKey(d, k, choice.value)

\* Each section missing as a key, empty, or filled
ContactChoices ==
    {Absent, Present(EmptyDict), Present([email |-> <<>>]),
     Present([email |-> <<"joe@x.com">>])}
SkillsChoices ==
    {Absent, Present(EmptyDict),
     Present([technical_skills |-> <<>>, soft_skills |-> << <<"leadership">> >>,
              total_count |-> 1]),
     Present([technical_skills |-> << <<"python">> >>, soft_skills |-> <<>>,
              total_count |-> 1])}
ListChoices(entry) == {Absent, Present(<<>>), Present(<<entry>>)}

FormatRecords ==
    {WithKey(WithKey(WithKey(WithKey(WithKey(WithKey(EmptyDict,
        "contact", c), "skills", s), "experience", x), "education", e),
        "projects", p), "certifications", t) :
        c \in ContactChoices, s \in SkillsChoices,
        x \in ListChoices([role |-> <<"developer">>, company |-> <<"Acme">>,
                           duration_years |-> Rat(25, 10),
                           description |-> <<"Built", "APIs">>]),
        e \in ListChoices([degree |-> <<"Bachelor", "of", "Science">>,
                           field |-> <<"Computer", "Science">>]),
        p \in ListChoices([name |-> <<"APIs">>,
                           description |-> <<"Built", "APIs">>]),
        t \in ListChoices(<<"AWS", "Certified", "Developer">>)}

InitFormat ==
    /\ format_data \in FormatRecords
    /\ format_out = [called |-> FALSE, value |-> RInt(0)]
    /\ ScorerIdle /\ RankerIdle /\ BatchIdle /\ GradeIdle /\ DurationIdle
    /\ ExtractIdle /\ SkillsIdle /\ ParserIdle /\ SummaryIdle /\ CompositeIdle
    /\ ContactIdle /\ EducationIdle /\ FeedbackIdle

NextFormat == call_calculate_format_score

SpecFormat == InitFormat /\ [][NextFormat]_vars

\* A section of the record is there: the key is present and its value is not
\* empty
HasSection(rd, k) == k \in DOMAIN rd /\ rd[k] # <<>>
HasField(rd, k, f) == k \in DOMAIN rd /\ f \in DOMAIN rd[k] /\ rd[k][f] # <<>>
Penalty(missing, points) == IF missing THEN points ELSE 0

\* C24: the format score starts at 100, loses 15 for a missing email, 20 for
\* no experience entries, 15 for no education entries and 20 for no technical
\* skills, gains 5 for having projects and 5 for having certifications, and
\* is clamped to [0, 100].
C24_FormatScoreDeductionsAndBonuses ==
    format_out.called =>
        LET raw == 100
                   - Penalty(~HasField(format_data, "contact", "email"), 15)
                   - Penalty(~HasSection(format_data, "experience"), 20)
                   - Penalty(~HasSection(format_data, "education"), 15)
                   - Penalty(~HasField(format_data, "skills", "technical_skills"), 20)
                   + Penalty(HasSection(format_data, "projects"), 5)
                   + Penalty(HasSection(format_data, "certifications"), 5)
            clamped == IF raw > 100 THEN 100 ELSE IF raw < 0 THEN 0 ELSE raw
        IN  REq(format_out.value, RInt(clamped))

\* C24 witness: a record without email that has every other section and
\* projects: 100 - 15 + 5 = 90
C24_Witness ==
    /\ format_out.called
    /\ ~HasField(format_data, "contact", "email")
    /\ HasSection(format_data, "experience")
    /\ HasSection(format_data, "education")
    /\ HasField(format_data, "skills", "technical_skills")
    /\ HasSection(format_data, "projects")
    /\ ~HasSection(format_data, "certifications")
    /\ REq(format_out.value, RInt(90))

----------------------------------------------------------------------------
(* ResumeExtractor._determine_education_level (extractors/__init__.py)      *)

\* The keys of the levels dict in its order, and their values
level_keys ==
    <<"phd", "doctorate", "master", "mba", "bachelor", "associate", "diploma">>

\* Mutant of levels: master and mba ranked like bachelor
levels_flat(key) ==
    CASE key = "phd" -> 5 [] key = "doctorate" -> 5
      [] key = "master" -> 3 [] key = "mba" -> 3
      [] key = "bachelor" -> 3 [] key = "associate" -> 2
      [] key = "diploma" -> 1

levels(key) ==
    CASE key = "phd" -> 5 [] key = "doctorate" -> 5
      [] key = "master" -> 4 [] key = "mba" -> 4
      [] key = "bachelor" -> 3 [] key = "associate" -> 2
      [] key = "diploma" -> 1

\* key.title()
Title(key) ==
    CASE key = "phd" -> "Phd" [] key = "doctorate" -> "Doctorate"
      [] key = "master" -> "Master" [] key = "mba" -> "Mba"
      [] key = "bachelor" -> "Bachelor" [] key = "associate" -> "Associate"
      [] key = "diploma" -> "Diploma"

\* key in edu.get('degree', '').lower()
KeyInDegree(key, edu) ==
    InText(key, LowerText(Get(edu, "degree", <<>>)))

\* The inner loop over the levels, for one entry
RECURSIVE ScanLevels(_, _, _)
ScanLevels(edu, k, acc) ==
    IF k > Len(level_keys) THEN acc
    ELSE LET key == level_keys[k]
         IN  ScanLevels(edu, k + 1,
                IF KeyInDegree(key, edu) /\ levels(key) > acc.max_level
                THEN [max_level |-> levels(key), level_name |-> Title(key)]
                ELSE acc)

\* The outer loop over the entries
RECURSIVE ScanEducation(_, _, _)
ScanEducation(entries, i, acc) ==
    IF i > Len(entries) THEN acc
    ELSE ScanEducation(entries, i + 1, ScanLevels(entries[i], 1, acc))

determine_education_level(entries) ==
    IF ~Truthy(entries) THEN "Not specified"
    ELSE ScanEducation(entries, 1,
            [max_level |-> 0, level_name |-> "Not specified"]).level_name

call_determine_education_level ==
    /\ ~level_out.called
    /\ level_out' = [called |-> TRUE,
                     level |-> determine_education_level(education_data)]
    /\ UNCHANGED education_data
    /\ UNCHANGED <<scorerVars, rankerVars, batchVars, gradeVars, durationVars,
                   extractVars, skillsVars, parserVars, summaryVars,
                   compositeVars, formatVars, contactVars, feedbackVars>>

MaxEducation == 3

\* Degree strings as EducationParser._extract_degree returns them (a matched
\* phrase title-cased, a short form upper-cased, or the default), and an entry
\* without the key
EducationEntries ==
    {[degree |-> d, institution |-> <<"Not", "specified">>] :
        d \in { <<"Master", "Of", "Science">>, <<"Bachelor", "Of", "Technology">>,
                <<"Doctor", "Of", "Philosophy">>, <<"PHD">>, <<"DOCTORATE">>,
                <<"MBA">>, <<"MASTERS">>, <<"ASSOCIATE">>, <<"DIPLOMA">>,
                <<"BS">>, <<"Not", "specified">> }}
    \cup {[institution |-> <<"Acme">>]}

EducationLists == UNION {[1..n -> EducationEntries] : n \in 0..MaxEducation}

InitEducation ==
    /\ education_data \in EducationLists
    /\ level_out = [called |-> FALSE, level |-> ""]
    /\ ScorerIdle /\ RankerIdle /\ BatchIdle /\ GradeIdle /\ DurationIdle
    /\ ExtractIdle /\ SkillsIdle /\ ParserIdle /\ SummaryIdle /\ CompositeIdle
    /\ FormatIdle /\ ContactIdle /\ FeedbackIdle

NextEducation == call_determine_education_level

SpecEducation == InitEducation /\ [][NextEducation]_vars

\* The ranks the claim gives the keywords
KeywordRank ==
    [phd |-> 5, doctorate |-> 5, master |-> 4, mba |-> 4, bachelor |-> 3,
     associate |-> 2, diploma |-> 1]

\* The keywords that occur in some degree string of the entries
KeywordsFound ==
    {k \in DOMAIN KeywordRank :
        \E i \in 1..Len(education_data) : KeyInDegree(k, education_data[i])}

\* C25: the education level is the title-cased keyword of highest rank
\* (phd/doctorate 5, master/mba 4, bachelor 3, associate 2, diploma 1) that
\* occurs as a substring of any degree string, and 'Not specified' when there
\* are no entries or no degree string contains a keyword.
C25_EducationLevelIsHighestKeyword ==
    level_out.called =>
        IF KeywordsFound = {}
        THEN level_out.level = "Not specified"
        ELSE \E k \in KeywordsFound :
                /\ \A j \in KeywordsFound : KeywordRank[j] <= KeywordRank[k]
                /\ level_out.level = Title(k)

\* C25 witness: the lower degree listed first, the higher one found inside a
\* longer word
C25_Witness ==
    /\ level_out.called
    /\ education_data = << [degree |-> <<"Bachelor", "Of", "Technology">>,
                            institution |-> <<"Not", "specified">>],
                           [degree |-> <<"MASTERS">>,
                            institution |-> <<"Not", "specified">>] >>
    /\ level_out.level = "Master"

----------------------------------------------------------------------------
(* ContactExtractor._extract_name (contact_extractor.py): the text is the   *)
(* sequence of its lines, a line the sequence of its words                  *)

\* Words that self.email_pattern and self.phone_patterns match
EmailWords == {"jane@x.com"}
PhoneWords == {"555-123-4567"}
HasEmailOrPhone(line) ==
    \E i \in 1..Len(line) : line[i] \in EmailWords \cup PhoneWords

\* len(word) = 1, word.isalpha(), word[0].isupper()
OneCharWords == {"-", "2"}
AlphabeticWords ==
    {"John", "Smith", "Call", "Resume", "Senior", "Software", "Engineer",
     "At", "Acme", "software", "engineer"}
UpperInitialWords ==
    {"John", "Smith", "Call", "Resume", "Senior", "Software", "Engineer",
     "At", "Acme"}

\* The test _extract_name applies to a line of the first five
LooksLikeName(line) ==
    /\ Len(line) > 0
    /\ ~HasEmailOrPhone(line)
    /\ 2 <= Len(line) /\ Len(line) <= 4
    /\ \A i \in 1..Len(line) :
          line[i] \notin OneCharWords =>
              (line[i] \in UpperInitialWords /\ line[i] \in AlphabeticWords)

NoName == [is_none |-> TRUE, line |-> <<>>]

extract_name(text) ==
    LET hits == {i \in 1..Len(text) : i <= 5 /\ LooksLikeName(text[i])}
    IN  IF hits = {} THEN NoName
        ELSE [is_none |-> FALSE, line |-> text[MinOf(hits)]]

call_extract_name ==
    /\ ~name_out.called
    /\ name_out' = [called |-> TRUE] @@ extract_name(contact_text)
    /\ UNCHANGED contact_text
    /\ UNCHANGED <<scorerVars, rankerVars, batchVars, gradeVars, durationVars,
                   extractVars, skillsVars, parserVars, summaryVars,
                   compositeVars, formatVars, educationVars, feedbackVars>>

MaxContactLines == 6

\* The lines of the head of a resume: blank, a name, a phone line, an email,
\* a lower-case title, a heading with a dash and a digit, a five-word heading
ContactLines ==
    { <<>>, <<"John", "Smith">>, <<"Call", "555-123-4567">>, <<"jane@x.com">>,
      <<"software", "engineer">>, <<"Resume", "-", "2">>,
      <<"Senior", "Software", "Engineer", "At", "Acme">> }

ContactTexts == UNION {[1..n -> ContactLines] : n \in 0..MaxContactLines}

InitContact ==
    /\ contact_text \in ContactTexts
    /\ name_out = [called |-> FALSE, is_none |-> TRUE, line |-> <<>>]
    /\ ScorerIdle /\ RankerIdle /\ BatchIdle /\ GradeIdle /\ DurationIdle
    /\ ExtractIdle /\ SkillsIdle /\ ParserIdle /\ SummaryIdle /\ CompositeIdle
    /\ FormatIdle /\ EducationIdle /\ FeedbackIdle

NextContact == call_extract_name

SpecContact == InitContact /\ [][NextContact]_vars

\* A line of 2 to 4 words, each alphabetic with a capital first letter, and
\* without an email or a phone number
IsNameLine(line) ==
    /\ ~HasEmailOrPhone(line)
    /\ 2 <= Len(line) /\ Len(line) <= 4
    /\ \A i \in 1..Len(line) :
          line[i] \in AlphabeticWords /\ line[i] \in UpperInitialWords

FirstFiveNonEmpty ==
    LET nonempty == SelectSeq(contact_text, LAMBDA l : Len(l) > 0)
    IN  SubSeq(nonempty, 1, IF Len(nonempty) < 5 THEN Len(nonempty) ELSE 5)

\* C21: the name is the first line, among the first 5 non-empty lines of the
\* text, that contains no email or phone match and consists of 2 to 4 words
\* every one of which is alphabetic and starts with a capital letter; null
\* when there is no such line.
C21_NameIsFirstQualifyingLine ==
    name_out.called =>
        LET hits == {i \in 1..Len(FirstFiveNonEmpty) :
                        IsNameLine(FirstFiveNonEmpty[i])}
        IN  IF hits = {} THEN name_out.is_none
            ELSE /\ ~name_out.is_none
                 /\ name_out.line = FirstFiveNonEmpty[MinOf(hits)]

----------------------------------------------------------------------------
(* ResumeOptimizer.generate_feedback (optimizer.py). A message of a list   *)
(* is the sequence of its fixed text and the values formatted into it       *)

\* self.trending_skills, domain by domain in the order of the dict
trending_skills ==
    << << <<"python">>, <<"java">>, <<"javascript">>, <<"react">>, <<"aws">>,
          <<"docker">>, <<"kubernetes">> >>,
       << <<"machine", "learning">>, <<"tensorflow">>, <<"pytorch">>,
          <<"sql">>, <<"pandas">>, <<"tableau">> >>,
       << <<"aws">>, <<"azure">>, <<"gcp">>, <<"terraform">>, <<"jenkins">>,
          <<"ci/cd">> >>,
       << <<"git">>, <<"agile">>, <<"rest", "api">>, <<"microservices">> >> >>

\* _get_overall_rating: the thresholds apply to ats['total_score'],
\* held in hundredths
get_overall_rating(rd, ats) ==
    IF /\ ~ats.is_none
       /\ DOMAIN ats.dict # {}
       /\ "total_score" \in DOMAIN ats.dict
    THEN LET score == ats.dict.total_score
         IN  IF score >= 8500 THEN "Excellent"
             ELSE IF score >= 7000 THEN "Good"
             ELSE IF score >= 5500 THEN "Average"
             ELSE "Needs Improvement"
    ELSE LET contact == Get(rd, "contact", EmptyDict)
             skills == Get(rd, "skills", EmptyDict)
             sections ==
                 (IF Truthy(Get(contact, "email", <<>>)) THEN 1 ELSE 0)
                 + (IF Truthy(Get(skills, "technical_skills", <<>>)) THEN 1 ELSE 0)
                 + (IF Truthy(Get(rd, "experience", <<>>)) THEN 1 ELSE 0)
                 + (IF Truthy(Get(rd, "education", <<>>)) THEN 1 ELSE 0)
         IN  IF sections >= 4 THEN "Good"
             ELSE IF sections >= 3 THEN "Average"
             ELSE "Needs Improvement"

\* issues.append(...) when the test holds
AppendIf(list, test, message) == IF test THEN Append(list, message) ELSE list

identify_critical_issues(rd) ==
    LET contact == Get(rd, "contact", EmptyDict)
        skills == Get(rd, "skills", EmptyDict)
        i1 == AppendIf(<<>>, ~Truthy(Get(contact, "email", <<>>)),
                       <<"Missing email address">>)
        i2 == AppendIf(i1, ~Truthy(Get(contact, "phone", <<>>)),
                       <<"Missing phone number">>)
        i3 == AppendIf(i2, ~Truthy(Get(rd, "experience", <<>>)),
                       <<"No work experience found">>)
        i4 == AppendIf(i3, ~Truthy(Get(rd, "education", <<>>)),
                       <<"No education information found">>)
    IN  AppendIf(i4, ~Truthy(Get(skills, "technical_skills", <<>>)),
                 <<"No technical skills listed">>)

\* Descriptions of 100 characters or more
LongDescription ==
    <<"-", "Led", "migration", "of", "billing", "services", "to",
      "kubernetes", "-", "reduced", "costs", "by", "40%", "across", "three",
      "regions", "-", "mentored", "engineers">>
LongPassiveDescription ==
    <<"Worked", "on", "the", "payments", "platform", "and", "was",
      "responsible", "for", "the", "deployment", "pipeline", "of", "every",
      "team", "in", "the", "company">>
LongDescriptions == {LongDescription, LongPassiveDescription}

\* The loop over the experiences of _suggest_improvements
RECURSIVE ExpandDescriptions(_, _)
ExpandDescriptions(exps, improvements) ==
    IF Len(exps) = 0 THEN improvements
    ELSE LET exp == Head(exps)
             desc == Get(exp, "description", <<>>)
         IN  ExpandDescriptions(Tail(exps),
                 AppendIf(improvements, desc \notin LongDescriptions,
                          <<"Expand description for">>
                              \o Get(exp, "role", <<"position">>)))

suggest_improvements(rd) ==
    LET skills == Get(rd, "skills", EmptyDict)
        tech_skills == Get(skills, "technical_skills", <<>>)
        exps == Get(rd, "experience", <<>>)
        projects == Get(rd, "projects", <<>>)
        certs == Get(rd, "certifications", <<>>)
        contact == Get(rd, "contact", EmptyDict)
        i1 == AppendIf(<<>>, Len(tech_skills) < 10,
                       <<"Add more technical skills", ToString(Len(tech_skills))>>)
        i2 == AppendIf(i1, Len(exps) < 2,
                       <<"Add more work experience entries">>)
        i3 == ExpandDescriptions(exps, i2)
        i4 == IF Len(projects) = 0
              THEN Append(i3, <<"Add projects section">>)
              ELSE AppendIf(i3, Len(projects) < 3,
                            <<"Add more projects", ToString(Len(projects))>>)
        i5 == AppendIf(i4, Len(certs) = 0, <<"Add certifications">>)
        i6 == AppendIf(i5, ~Truthy(Get(contact, "linkedin", <<>>)),
                       <<"Add LinkedIn profile URL">>)
    IN  AppendIf(i6, ~Truthy(Get(contact, "github", <<>>)),
                 <<"Add GitHub profile">>)

\* Words that r'\d+%|\d+x|\$\d+|saved \d+|increased \d+' matches
MetricWords == {"40%"}
weak_verbs ==
    { <<"responsible", "for">>, <<"worked", "on">>, <<"helped", "with">>,
      <<"assisted", "in">> }
\* desc.count('\n') + desc.count(bullet) + desc.count('-'): the descriptions
\* here mark their items with "-"
BulletWords == {"-"}
bullet_count(desc) == Cardinality({i \in 1..Len(desc) : desc[i] \in BulletWords})

analyze_content_quality(rd) ==
    LET exps == Get(rd, "experience", <<>>)
        education == Get(rd, "education", <<>>)
        desc(i) == Get(exps[i], "description", <<>>)
        has_metrics ==
            \E i \in 1..Len(exps) :
                \E j \in 1..Len(desc(i)) : desc(i)[j] \in MetricWords
        total_exp_years ==
            Get(Get(rd, "summary", EmptyDict),
                "total_experience_years", RInt(0))
        s1 == AppendIf(<<>>, ~has_metrics /\ Truthy(exps),
                       <<"Quantify achievements with metrics">>)
        s2 == AppendIf(s1,
                  \E i \in 1..Len(exps) : \E verb \in weak_verbs :
                      PhraseInText(verb, LowerText(desc(i))),
                  <<"Use strong action verbs", "Led", "Developed",
                    "Implemented">>)
        s3 == AppendIf(s2,
                  \E i \in 1..Len(exps) : bullet_count(desc(i)) < 3,
                  <<"Add 3-5 bullet points per job">>)
        s4 == AppendIf(s3,
                  \E i \in 1..Len(education) :
                      ~Truthy(Get(education[i], "year", <<>>)),
                  <<"Add graduation years to education entries">>)
    IN  AppendIf(s4, RLt(RInt(5), total_exp_years) /\ Len(exps) < 3,
                 <<"With 5+ years experience, include at least 3 recent positions">>)

\* _get_resume_text: ' '.join of the skills, the roles and the descriptions
get_resume_text(rd) ==
    LET skills == Get(rd, "skills", EmptyDict)
        exps == Get(rd, "experience", <<>>)
    IN  Concat(Get(skills, "technical_skills", <<>>))
        \o Concat(Get(skills, "soft_skills", <<>>))
        \o Concat([i \in 1..Len(exps) |->
                      Get(exps[i], "role", <<>>)
                      \o Get(exps[i], "description", <<>>)])

\* Words of a JD that r'\b([A-Z][a-zA-Z+#]{2,}(?:\.[a-z]{2,})?)\b' matches:
\* a capital letter followed by two or more letters
TechShapedWords == {"Python", "AWS", "Docker", "Kafka"}

\* The loop over potential_tech[:10]; a match has three characters or more,
\* so len(tech) > 2 holds
RECURSIVE ScanPotentialTech(_, _, _)
ScanPotentialTech(techs, resume_text, jd_keywords) ==
    IF Len(techs) = 0 THEN jd_keywords
    ELSE LET tech == Head(techs)
         IN  ScanPotentialTech(Tail(techs), resume_text,
                 IF /\ ~InText(Lower(tech), resume_text)
                    /\ <<tech>> \notin Range(jd_keywords)
                 THEN Append(jd_keywords, <<Lower(tech)>>)
                 ELSE jd_keywords)

FirstN(s, n) == SubSeq(s, 1, IF Len(s) < n THEN Len(s) ELSE n)

\* jd_keywords of _find_missing_keywords, before the cut to five
missing_jd_keywords(rd, jd) ==
    LET resume_text == LowerText(get_resume_text(rd))
        jd_lower == LowerText(jd)
        all_skills == Concat(trending_skills)
        curated ==
            SelectSeq(all_skills,
                      LAMBDA skill : /\ PhraseInText(skill, jd_lower)
                                     /\ ~PhraseInText(skill, resume_text))
        potential_tech == SelectSeq(jd, LAMBDA w : w \in TechShapedWords)
    IN  ScanPotentialTech(FirstN(potential_tech, 10), resume_text, curated)

KeywordMessages(keywords) ==
    [i \in 1..Len(keywords) |-> <<"Add keyword">> \o keywords[i]]

\* Mutant of find_missing_keywords: every keyword found is suggested
find_missing_keywords_uncapped(rd, jd) ==
    KeywordMessages(missing_jd_keywords(rd, jd))

find_missing_keywords(rd, jd) ==
    KeywordMessages(FirstN(missing_jd_keywords(rd, jd), 5))

identify_strengths(rd) ==
    LET skills == Get(rd, "skills", EmptyDict)
        summ == Get(rd, "summary", EmptyDict)
        contact == Get(rd, "contact", EmptyDict)
        tech_count == Len(Get(skills, "technical_skills", <<>>))
        total_years == Get(summ, "total_experience_years", RInt(0))
        edu_level == Get(summ, "education_level", "")
        projects == Get(rd, "projects", <<>>)
        certs == Get(rd, "certifications", <<>>)
        s1 == AppendIf(<<>>, tech_count >= 15,
                       <<"Strong technical skills portfolio", ToString(tech_count)>>)
        s2 == AppendIf(s1, RGe(total_years, RInt(5)),
                       <<"Solid work experience", ToString(Round1(total_years))>>)
        s3 == AppendIf(s2, edu_level \in {"Phd", "Doctorate", "Master", "Mba"},
                       <<"Advanced degree", edu_level>>)
        s4 == AppendIf(s3, Len(projects) >= 3,
                       <<"Good project portfolio", ToString(Len(projects))>>)
        s5 == AppendIf(s4, Len(certs) >= 2,
                       <<"Professional certifications", ToString(Len(certs))>>)
    IN  AppendIf(s5, /\ Truthy(Get(contact, "email", <<>>))
                     /\ Truthy(Get(contact, "phone", <<>>))
                     /\ Truthy(Get(contact, "linkedin", <<>>)),
                 <<"Complete contact information">>)

RawOptimizationScore(fb) ==
    100 - Len(fb.critical_issues) * 15 - Len(fb.improvements) * 5
        - Len(fb.missing_keywords) * 3 + Len(fb.strong_points) * 2

\* Mutant of calculate_optimization_score: the score is not clamped
calculate_optimization_score_unclamped(fb, ats) ==
    RawOptimizationScore(fb)

calculate_optimization_score(fb, ats) ==
    LET score == RawOptimizationScore(fb)
        capped == IF score < 100 THEN score ELSE 100
    IN  IF capped > 0 THEN capped ELSE 0

generate_feedback(rd, jd, ats) ==
    LET lists ==
            [overall_rating |-> get_overall_rating(rd, ats),
             critical_issues |-> identify_critical_issues(rd),
             improvements |-> suggest_improvements(rd),
             suggestions |-> analyze_content_quality(rd),
             missing_keywords |->
                 IF ~jd.is_none /\ Truthy(jd.text)
                 THEN find_missing_keywords(rd, jd.text)
                 ELSE <<>>,
             strong_points |-> identify_strengths(rd)]
    IN  [optimization_score |-> calculate_optimization_score(lists, ats)]
        @@ lists

call_generate_feedback ==
    /\ feedback_outcome = "idle"
    /\ feedback' = generate_feedback(fb_resume_data, fb_jd_text, fb_ats_score)
    /\ feedback_outcome' = "returned"
    /\ UNCHANGED <<fb_resume_data, fb_jd_text, fb_ats_score>>
    /\ UNCHANGED <<scorerVars, rankerVars, batchVars, gradeVars, durationVars,
                   extractVars, skillsVars, parserVars, summaryVars,
                   compositeVars, formatVars, contactVars, educationVars>>

\* A record with every section filled beyond the recommendations
StrongRecord ==
    [contact |-> [email |-> <<"ann@x.com">>, phone |-> <<"5551234567">>,
                  linkedin |-> <<"linkedin.com/in/ann">>,
                  github |-> <<"github.com/ann">>],
     skills |-> [technical_skills |->
                     << <<"python">>, <<"java">>, <<"javascript">>,
                        <<"react">>, <<"sql">>, <<"git">>, <<"terraform">>,
                        <<"jenkins">>, <<"azure">>, <<"gcp">>, <<"pandas">>,
                        <<"pytorch">>, <<"tensorflow">>, <<"tableau">>,
                        <<"agile">> >>,
                 soft_skills |-> << <<"leadership">> >>,
                 total_count |-> 16],
     experience |-> << [role |-> <<"Staff", "Engineer">>,
                        company |-> <<"Acme">>,
                        duration_years |-> Rat(4, 1),
                        description |-> LongDescription],
                       [role |-> <<"Software", "Engineer">>,
                        company |-> <<"Tech", "Corp">>,
                        duration_years |-> Rat(33, 10),
                        description |-> LongPassiveDescription] >>,
     education |-> << [degree |-> <<"Master", "Of", "Science">>,
                       field |-> <<"Computer", "Science">>,
                       year |-> <<"2015">>] >>,
     projects |-> << [name |-> <<"compiler">>,
                      description |-> <<"compiler", "in", "python">>],
                     [name |-> <<"scheduler">>,
                      description |-> <<"Built", "APIs">>],
                     [name |-> <<"tracer">>,
                      description |-> <<"Built", "APIs">>] >>,
     certifications |-> << <<"azure", "architect">>, <<"scrum", "master">> >>,
     summary |-> [total_experience_years |-> Rat(73, 10),
                  education_level |-> "Master"]]

FeedbackRecords == {EmptyDict, BlankRecord, TestRecord, FullRecord, StrongRecord}

MaxFeedbackJD == 3
FeedbackJDWords == {"Python", "AWS", "Docker", "docker", "Kafka", "the"}
FeedbackJDTexts ==
    {[is_none |-> TRUE, text |-> <<>>]}
    \cup {[is_none |-> FALSE, text |-> t] :
             t \in UNION {[1..n -> FeedbackJDWords] : n \in 0..MaxFeedbackJD}}

\* The dict score_resume builds for the record of tests/test_scorer.py against
\* "Python" on the TF-IDF path
ScorerBuiltTestDict ==
    LET s == SubScores(TestRecord, <<"Python">>, FALSE,
                       [raised |-> FALSE, similarity |-> Rat(3712, 10000)])
    IN  BuildResult(s, WeightedTotal(s))

\* No score, an empty dict, caller-made dicts around the thresholds, and
\* dicts score_resume builds
FeedbackScores ==
    {[is_none |-> TRUE, dict |-> EmptyDict]}
    \cup {[is_none |-> FALSE, dict |-> d] :
             d \in {EmptyDict, ScorerBuiltDict, ScorerBuiltTestDict}
                   \cup {ScoreDictWithTotal(t) :
                            t \in {8500, 8499, 7000, 6999, 5500, 5499}}}

InitFeedback ==
    /\ fb_resume_data \in FeedbackRecords
    /\ fb_jd_text \in FeedbackJDTexts
    /\ fb_ats_score \in FeedbackScores
    /\ feedback = EmptyDict
    /\ feedback_outcome = "idle"
    /\ ScorerIdle /\ RankerIdle /\ BatchIdle /\ GradeIdle /\ DurationIdle
    /\ ExtractIdle /\ SkillsIdle /\ ParserIdle /\ SummaryIdle /\ CompositeIdle
    /\ FormatIdle /\ ContactIdle /\ EducationIdle

NextFeedback == call_generate_feedback

SpecFeedback == InitFeedback /\ [][NextFeedback]_vars

FeedbackDone == feedback_outcome = "returned"

\* C22: missing_keywords is empty whenever no JD text is given (null or the
\* empty string), and never has more than 5 entries.
C22_MissingKeywordsEmptyWithoutJDAndAtMostFive ==
    FeedbackDone =>
        /\ (fb_jd_text.is_none \/ fb_jd_text.text = <<>>) =>
               feedback.missing_keywords = <<>>
        /\ Len(feedback.missing_keywords) <= 5

\* A JD with more than five findings against a record that has none of them
C22_Witness ==
    /\ FeedbackDone
    /\ fb_jd_text = [is_none |-> FALSE, text |-> <<"AWS", "Docker", "Kafka">>]
    /\ fb_resume_data = BlankRecord
    /\ Len(missing_jd_keywords(fb_resume_data, fb_jd_text.text)) > 5
    /\ Len(feedback.missing_keywords) = 5

Clamp(x, lo, hi) == IF x < lo THEN lo ELSE IF x > hi THEN hi ELSE x

\* C23: optimization_score = clamp(100 - 15*|critical_issues|
\* - 5*|improvements| - 3*|missing_keywords| + 2*|strong_points|, 0, 100) over
\* the lists of the same feedback, hence an integer in 0..100.
C23_OptimizationScoreIsClampedFormula ==
    FeedbackDone =>
        /\ feedback.optimization_score =
               Clamp(100 - 15 * Len(feedback.critical_issues)
                         - 5 * Len(feedback.improvements)
                         - 3 * Len(feedback.missing_keywords)
                         + 2 * Len(feedback.strong_points), 0, 100)
        /\ feedback.optimization_score \in 0..100

\* The strong record without a JD: the unclamped value is above 100
C23_Witness ==
    /\ FeedbackDone
    /\ fb_resume_data = StrongRecord
    /\ fb_jd_text.is_none
    /\ RawOptimizationScore(feedback) > 100
    /\ feedback.optimization_score = 100

\* C28: missing_keywords never names the same keyword twice, also when a
\* keyword is found by the curated list and by the capitalized-token scan.
C28_MissingKeywordsHasNoDuplicate ==
    FeedbackDone => IsInjective(feedback.missing_keywords)

RatingOfScore(hundredths) ==
    IF hundredths >= 8500 THEN "Excellent"
    ELSE IF hundredths >= 7000 THEN "Good"
    ELSE IF hundredths >= 5500 THEN "Average"
    ELSE "Needs Improvement"

\* C29: given the result score_resume builds, overall_rating is derived from
\* that result's final score (>= 85 Excellent, >= 70 Good, >= 55 Average,
\* otherwise Needs Improvement), not from the count of sections.
C29_RatingFromScorerResult ==
    (/\ FeedbackDone
     /\ <<fb_resume_data, fb_ats_score.dict>> \in
            {<<FullRecord, ScorerBuiltDict>>, <<TestRecord, ScorerBuiltTestDict>>}) =>
        feedback.overall_rating = RatingOfScore(fb_ats_score.dict.final_score)

=============================================================================
